---- MODULE Spec2Model ----
(***************************************************************************)
(* Bridge-mapping reconciliation of snap-openstack-network-agents.          *)
(*                                                                          *)
(* The model follows core/external_networking.py (the orchestrator          *)
(* configure_ovn_external_networking and its helpers) and                   *)
(* core/bridge_datapath.py (resolve_bridge_mappings,                        *)
(* detect_current_mappings, resolve_ovs_changes,                            *)
(* update_mappings_from_rename).  Open vSwitch itself is the environment:   *)
(* its bridges, ports, port tags and the global external_ids records are    *)
(* the switch state the ovs-vsctl commands of the code read and write.      *)
(*                                                                          *)
(* Names are numbers: bridges 1..NB, physnets 1..NP, NICs 1..NI, ordered    *)
(* as the strings they stand for are ordered by sorted().  0 stands for     *)
(* None and for the empty string, the falsy values of the code.             *)
(***************************************************************************)
EXTENDS Integers, Sequences, FiniteSets, TLC

\* Bounds of the model.
NB == 2
NP == 2
NI == 2
MaxTokens == 2
MaxPasses == 2
MaxSleep == 2
MaxSplit == 3
NM == 2
MaxField == 2
MaxOctets == 3
MaxCmds == 3
MaxTxns == 2
MaxNested == 1

\* _wait_for_interface gives up when more than this has elapsed (line 112).
WAIT_TIMEOUT == 30

None == 0
Bridges == 1..NB
Physnets == 1..NP
Ifaces == 1..NI
\* "br-int": sorts after every "br-ex..." name used here.
INTEGRATION_BRIDGE == NB + 1

VARIABLES
    \* ---- the switch (Open vSwitch database) ----
    ovsBridges,      \* set of bridge names that exist (list-br)
    ovsPorts,        \* NIC -> bridge it is a port of, None when not attached
    ovsTagged,       \* NICs whose Port carries microstack-function=ext-port
    ovsMappings,     \* external_ids:ovn-bridge-mappings: sequence of <<physnet, bridge>>
    ovsMacMappings,  \* external_ids:ovn-chassis-mac-mappings: sequence of <<physnet, MAC>>
    ovsGateway,      \* ovn-cms-options holds enable-chassis-as-gw
    \* ---- the arguments of configure_ovn_external_networking ----
    bridge_mapping,  \* network.bridge-mapping: sequence of tokens, a token a sequence of fields
    legacy,          \* <<bridge, physnet, interface>> of the deprecated options
    enable_chassis_as_gw,  \* network.enable-chassis-as-gw
    \* ---- the locals of one pass ----
    pc,              \* position in configure_ovn_external_networking
    mappings,        \* the desired list (after line 209: rename-adapted)
    current_mappings,
    changes,         \* BridgeResolutionStatus
    work,            \* what the loop at pc has still to iterate over
    extTodo,         \* enforcement: the external ports still to look at
    calls,           \* the calls issued so far in this pass, in order
    \* ---- across passes ----
    pass,            \* number of the running pass
    desired0,        \* the list resolve_bridge_mappings returned in this pass
    lastPublished,   \* the ovn-bridge-mappings value the previous pass published
    \* ---- the host around the pass ----
    elapsed,         \* _wait_for_interface: time.monotonic() - start of the running wait
    links,           \* the bridges whose interface exists on the host (link_lookup)
    failing,         \* the read commands of detection that fail (OVSCommandError)
    error,           \* the ValueError the pass raised to its caller: [err, value]
    \* ---- one call of generate_stable_laa_mac ----
    mac_args,        \* <<prefix, physnet, machine_id>>
    mac_result,      \* [err, mac]: the ValueError raised ("" for none) and the MAC
    \* ---- an OVSCli object and the program that uses its transactions ----
    in_transaction,        \* OVSCli._in_transaction
    transaction_commands,  \* OVSCli._transaction_commands: the queued commands
    executed,        \* the ovs-vsctl invocations so far: [cmds, by], by the method that ran it
    vsctl_calls,     \* the vsctl() calls so far: [skip_transaction, txn]; a command is
                     \* named by the position of its call, txn is 0 outside a transaction
    outcome,         \* how each transaction context ended: "open", "normal",
                     \* "commit_failed" or "raised"
    txn_pc,          \* the user of the object is "outside" or in the "body" of a context
    ovs_errors       \* number of OVSError raised by transaction()

vars == <<ovsBridges, ovsPorts, ovsTagged, ovsMappings, ovsMacMappings, ovsGateway,
          bridge_mapping, legacy, enable_chassis_as_gw, pc, mappings, current_mappings, changes,
          work, extTodo, calls, pass, desired0, lastPublished, elapsed, links, failing,
          error, mac_args, mac_result, in_transaction, transaction_commands,
          executed, vsctl_calls, outcome, txn_pc, ovs_errors>>

cliVars == <<in_transaction, transaction_commands, executed, vsctl_calls, outcome,
             txn_pc, ovs_errors>>

macVars == <<mac_args, mac_result>>
hostVars == <<elapsed, links, failing, error>>
switchVars == <<ovsBridges, ovsPorts, ovsTagged, ovsMappings, ovsMacMappings, ovsGateway>>
inputVars == <<bridge_mapping, legacy, enable_chassis_as_gw>>

----------------------------------------------------------------------------
\* Generic helpers.

Range(s) == {s[k] : k \in 1..Len(s)}

Min(S) == CHOOSE x \in S : \A y \in S : x <= y

\* sorted(S) for a finite set of names.
RECURSIVE sorted(_)
sorted(S) == IF S = {} THEN <<>> ELSE <<Min(S)>> \o sorted(S \ {Min(S)})

IsSorted(s) == \A k \in 1..(Len(s) - 1) : s[k] < s[k + 1]

\* All orders in which a finite set can be iterated.
Perms(S) == {s \in [1..Cardinality(S) -> S] : \A x \in S : \E k \in DOMAIN s : s[k] = x}

SeqsUpTo(S, n) == UNION {[1..k -> S] : k \in 0..n}

BridgeMapping(b, p, i) == [bridge |-> b, physnet |-> p, interface |-> i]

----------------------------------------------------------------------------
\* resolve_bridge_mappings

\* A loop body without the check of line 675: a bridge may come twice.
ResolveToken_NoBridgeCheck(acc, tok) ==
    IF acc.err /= "" THEN acc
    ELSE IF Len(tok) = 0 THEN acc
    ELSE IF Len(tok) \notin {2, 3} THEN [acc EXCEPT !.err = "Invalid mapping format"]
    ELSE LET bridge == tok[1]
             physnet == tok[2]
             iface == IF Len(tok) = 3 THEN tok[3] ELSE None
             ms == acc.mappings
         IN IF \E k \in 1..Len(ms) : ms[k].physnet = physnet
               THEN [acc EXCEPT !.err = "Duplicate physnet", !.value = physnet]
            ELSE IF iface /= None /\ \E k \in 1..Len(ms) : ms[k].interface = iface
               THEN [acc EXCEPT !.err = "Duplicate interface", !.value = iface]
            ELSE [acc EXCEPT !.mappings = Append(ms, BridgeMapping(bridge, physnet, iface))]

\* A loop body that reads the first three fields of a longer token.
ResolveToken_ExtraFields(acc, tok) ==
    IF acc.err /= "" THEN acc
    ELSE IF Len(tok) = 0 THEN acc
    ELSE IF Len(tok) < 2 THEN [acc EXCEPT !.err = "Invalid mapping format"]
    ELSE LET bridge == tok[1]
             physnet == tok[2]
             iface == IF Len(tok) >= 3 THEN tok[3] ELSE None
             ms == acc.mappings
         IN IF \E k \in 1..Len(ms) : ms[k].physnet = physnet
               THEN [acc EXCEPT !.err = "Duplicate physnet", !.value = physnet]
            ELSE IF \E k \in 1..Len(ms) : ms[k].bridge = bridge
               THEN [acc EXCEPT !.err = "Duplicate bridge", !.value = bridge]
            ELSE IF iface /= None /\ \E k \in 1..Len(ms) : ms[k].interface = iface
               THEN [acc EXCEPT !.err = "Duplicate interface", !.value = iface]
            ELSE [acc EXCEPT !.mappings = Append(ms, BridgeMapping(bridge, physnet, iface))]

\* One step of the loop over the tokens: acc is [err, value, mappings], err the
\* kind of the ValueError raised so far ("" for none) and value the value its
\* message names.
ResolveToken(acc, tok) ==
    IF acc.err /= "" THEN acc
    ELSE IF Len(tok) = 0 THEN acc
    ELSE IF Len(tok) \notin {2, 3} THEN [acc EXCEPT !.err = "Invalid mapping format"]
    ELSE LET bridge == tok[1]
             physnet == tok[2]
             iface == IF Len(tok) = 3 THEN tok[3] ELSE None
             ms == acc.mappings
         IN IF \E k \in 1..Len(ms) : ms[k].physnet = physnet
               THEN [acc EXCEPT !.err = "Duplicate physnet", !.value = physnet]
            ELSE IF \E k \in 1..Len(ms) : ms[k].bridge = bridge
               THEN [acc EXCEPT !.err = "Duplicate bridge", !.value = bridge]
            ELSE IF iface /= None /\ \E k \in 1..Len(ms) : ms[k].interface = iface
               THEN [acc EXCEPT !.err = "Duplicate interface", !.value = iface]
            ELSE [acc EXCEPT !.mappings = Append(ms, BridgeMapping(bridge, physnet, iface))]

RECURSIVE ResolveTokens(_, _)
ResolveTokens(acc, toks) ==
    IF toks = <<>> THEN acc
    ELSE ResolveTokens(ResolveToken(acc, Head(toks)), Tail(toks))

\* A resolver that adds the legacy mapping to the mappings of the string.
resolve_bridge_mappings_LegacyToo(external_bridge, physnet_name, external_nic, mapping) ==
    LET r == ResolveTokens([err |-> "", value |-> None, mappings |-> <<>>], mapping)
    IN IF external_bridge /= None /\ physnet_name /= None /\ r.err = ""
       THEN [r EXCEPT !.mappings =
                Append(@, BridgeMapping(external_bridge, physnet_name, external_nic))]
       ELSE r

resolve_bridge_mappings(external_bridge, physnet_name, external_nic, mapping) ==
    IF mapping /= <<>>
    THEN ResolveTokens([err |-> "", value |-> None, mappings |-> <<>>], mapping)
    ELSE IF external_bridge /= None /\ physnet_name /= None
    THEN [err |-> "", value |-> None,
          mappings |-> <<BridgeMapping(external_bridge, physnet_name, external_nic)>>]
    ELSE [err |-> "", value |-> None, mappings |-> <<>>]

----------------------------------------------------------------------------
\* OVSCli: transaction, commit, vsctl

\* OVSCli.__init__ (lines 96-104), with nothing called on the object yet.
NewOVSCli ==
    /\ in_transaction = FALSE
    /\ transaction_commands = <<>>
    /\ executed = <<>>
    /\ vsctl_calls = <<>>
    /\ outcome = <<>>
    /\ txn_pc = "outside"
    /\ ovs_errors = 0

\* One run of ovs-vsctl (_execute_vsctl) with the given commands.
Invocation(cmds, by) == [cmds |-> cmds, by |-> by]

\* The transaction the user is in, 0 when in none.
ActiveTxn == IF txn_pc = "body" THEN Len(outcome) ELSE 0

----------------------------------------------------------------------------
\* generate_stable_laa_mac

\* The characters of a prefix: the hex digits by their value, and one
\* character that is no hex digit.  A prefix is the sequence of the fields
\* prefix.split(":") returns, a field a sequence of characters.
HexDigits == {0, 1, 5, 10, 11, 12}
NotHex == 16
PrefixChars == HexDigits \cup {NotHex}

\* The contents of /etc/machine-id.
MachineIds == 1..NM

\* "0a:c5"
DEFAULT_LAA_MAC_PREFIX == << <<0, 10>>, <<12, 5>> >>

\* int(field, 16) raises ValueError for the empty string and for a string
\* with a character that is no hex digit.
IsHex(field) == Len(field) > 0 /\ \A k \in 1..Len(field) : field[k] \in 0..15

RECURSIVE HexValue(_)
HexValue(field) ==
    IF field = <<>> THEN 0
    ELSE 16 * HexValue(SubSeq(field, 1, Len(field) - 1)) + field[Len(field)]

\* A test of bit 0, the multicast bit.
LaaBit_Bit0(n) == n % 2

\* first_octet & 0x02
LaaBit(n) == (n \div 2) % 2

\* Bytes of a SHA-256 digest, kept as a term over the hashed text.
Sha256Bytes(kind, text, first, last) ==
    [sha256 |-> kind, of |-> text, first |-> first, last |-> last]

NoMac == [prefix |-> <<>>, physnet_bytes |-> <<>>, machine_bytes |-> <<>>]

generate_stable_laa_mac(prefix, physnet, machine_id) ==
    IF Len(prefix) /= 2
    THEN [err |-> "Prefix must be exactly 2 octets", mac |-> NoMac]
    ELSE IF ~IsHex(prefix[1])
    THEN [err |-> "Invalid hex value in prefix", mac |-> NoMac]
    ELSE IF LaaBit(HexValue(prefix[1])) = 0
    THEN [err |-> "Prefix first octet must have LAA bit set", mac |-> NoMac]
    ELSE [err |-> "",
          mac |-> [prefix |-> prefix,
                   physnet_bytes |-> Sha256Bytes("physnet", physnet, 0, 0),
                   machine_bytes |-> Sha256Bytes("machine_id", machine_id, 0, 2)]]

\* generate_stable_laa_mac has not returned.
NotCalled == [err |-> "not called", mac |-> NoMac]

\* BridgeMapping.physnet_mac_pair
physnet_mac_pair(m, machine_id) ==
    <<m.physnet, generate_stable_laa_mac(DEFAULT_LAA_MAC_PREFIX, m.physnet, machine_id).mac>>

----------------------------------------------------------------------------
\* OVSCli queries, as functions of the switch state.

list_bridges(brs) == sorted(brs)

list_bridge_interfaces(ports, bridge) == sorted({i \in DOMAIN ports : ports[i] = bridge})

\* The dict built from the comma-separated physnet:bridge pairs: a later pair
\* for the same bridge overwrites an earlier one.
get_bridge_physnet_map(rec) ==
    [b \in {rec[k][2] : k \in 1..Len(rec)} |->
        LET last == CHOOSE k \in 1..Len(rec) :
                        /\ rec[k][2] = b
                        /\ \A j \in (k + 1)..Len(rec) : rec[j][2] /= b
        IN rec[last][1]]

\* A comparison that never finds an interface named like the bridge.
SameName_Never(iface, bridge) == FALSE

\* iface == bridge as strings: the internal port of bridge b carries the name
\* of b, which in the interface numbering is NI + b (the NICs are 1..NI).
SameName(iface, bridge) == iface = NI + bridge

\* dict.get(key): None when the key is missing.
Get(map, key) == IF key \in DOMAIN map THEN map[key] ELSE None

----------------------------------------------------------------------------
\* detect_current_mappings

add_mapping(ms, entry) == IF entry \in Range(ms) THEN ms ELSE Append(ms, entry)

RECURSIVE AddInterfaces(_, _, _, _)
AddInterfaces(ms, bridge, physnet, interfaces) ==
    IF interfaces = <<>> THEN ms
    ELSE AddInterfaces(
            IF Head(interfaces) = None THEN ms
            ELSE add_mapping(ms, BridgeMapping(bridge, physnet, Head(interfaces))),
            bridge, physnet, Tail(interfaces))

\* No ValueError was raised.
NoError == [err |-> "", value |-> None]

\* No read command fails.
NoFailures == [list_bridges |-> FALSE, get_bridge_physnet_map |-> FALSE,
               list_bridge_interfaces |-> {}]

\* A loop body that drops the bridge whose interfaces cannot be listed.
DetectBridge_DropsFailed(ms, bridge, table, ports, fails) ==
    IF bridge = INTEGRATION_BRIDGE THEN ms
    ELSE LET physnet == Get(table, bridge)
             interfaces == SelectSeq(list_bridge_interfaces(ports, bridge),
                                     LAMBDA i : ~SameName(i, bridge))
         IN IF physnet = None THEN ms
            ELSE IF bridge \in fails.list_bridge_interfaces THEN ms
            ELSE IF interfaces = <<>>
               THEN add_mapping(ms, BridgeMapping(bridge, physnet, None))
            ELSE AddInterfaces(ms, bridge, physnet, interfaces)

\* The body of the loop over the bridges; fails: the read commands that raise
\* OVSCommandError (list_bridge_interfaces: the bridges it raises for).
DetectBridge(ms, bridge, table, ports, fails) ==
    IF bridge = INTEGRATION_BRIDGE THEN ms
    ELSE LET physnet == Get(table, bridge)
             interfaces == SelectSeq(list_bridge_interfaces(ports, bridge),
                                     LAMBDA i : ~SameName(i, bridge))
         IN IF physnet = None THEN ms
            ELSE IF bridge \in fails.list_bridge_interfaces
               THEN add_mapping(ms, BridgeMapping(bridge, physnet, None))
            ELSE IF interfaces = <<>>
               THEN add_mapping(ms, BridgeMapping(bridge, physnet, None))
            ELSE AddInterfaces(ms, bridge, physnet, interfaces)

RECURSIVE DetectLoop(_, _, _, _, _)
DetectLoop(ms, bridges, table, ports, fails) ==
    IF bridges = <<>> THEN ms
    ELSE DetectLoop(DetectBridge(ms, Head(bridges), table, ports, fails),
                    Tail(bridges), table, ports, fails)

\* get_bridge_physnet_map catches the error of its command and returns {}.
detect_current_mappings(brs, rec, ports, fails) ==
    IF fails.list_bridges THEN <<>>
    ELSE LET bridges == list_bridges(brs)
             table == IF fails.get_bridge_physnet_map
                      THEN get_bridge_physnet_map(<<>>)
                      ELSE get_bridge_physnet_map(rec)
         IN IF bridges = <<>> THEN <<>>
            ELSE DetectLoop(<<>>, bridges, table, ports, fails)

----------------------------------------------------------------------------
\* resolve_ovs_changes

\* {m.physnet: m.bridge for m in mapping}: the last mapping of a physnet wins.
PhysnetMap(ms) ==
    [p \in {ms[k].physnet : k \in 1..Len(ms)} |->
        LET last == CHOOSE k \in 1..Len(ms) :
                        /\ ms[k].physnet = p
                        /\ \A j \in (k + 1)..Len(ms) : ms[j].physnet /= p
        IN ms[last].bridge]

\* bridge -> set of its (non-empty) interfaces.
BridgeInterfaces(ms) ==
    [b \in {ms[k].bridge : k \in 1..Len(ms)} |->
        {ms[k].interface : k \in {j \in 1..Len(ms) :
                                    ms[j].bridge = b /\ ms[j].interface /= None}}]

AllPhysnets(previous_mapping, new_mapping) ==
    DOMAIN PhysnetMap(previous_mapping) \cup DOMAIN PhysnetMap(new_mapping)

\* A rename test that does not compare the two names.
IsRename_AnyPair(prev_bridge, new_bridge) == prev_bridge /= None /\ new_bridge /= None

IsRename(prev_bridge, new_bridge) ==
    prev_bridge /= None /\ new_bridge /= None /\ prev_bridge /= new_bridge

\* A differ with cycle detection: a rename whose reverse is reported for a
\* later physnet is dropped.
RECURSIVE RenamedBridges_NoCycles(_, _, _)
RenamedBridges_NoCycles(prev_physnet_map, new_physnet_map, order) ==
    IF order = <<>> THEN <<>>
    ELSE LET prev_bridge == Get(prev_physnet_map, Head(order))
             new_bridge == Get(new_physnet_map, Head(order))
             rest == RenamedBridges_NoCycles(prev_physnet_map, new_physnet_map, Tail(order))
         IN IF /\ IsRename(prev_bridge, new_bridge)
               /\ <<new_bridge, prev_bridge>> \notin Range(rest)
            THEN <<<<prev_bridge, new_bridge>>>> \o rest
            ELSE rest

\* Lines 746-754: one (old, new) pair per physnet whose bridge differs, in the
\* order the set of physnets is iterated.
RECURSIVE RenamedBridges(_, _, _)
RenamedBridges(prev_physnet_map, new_physnet_map, order) ==
    IF order = <<>> THEN <<>>
    ELSE LET prev_bridge == Get(prev_physnet_map, Head(order))
             new_bridge == Get(new_physnet_map, Head(order))
             rest == RenamedBridges(prev_physnet_map, new_physnet_map, Tail(order))
         IN IF IsRename(prev_bridge, new_bridge)
            THEN <<<<prev_bridge, new_bridge>>>> \o rest
            ELSE rest

MapValues(map) == {map[k] : k \in DOMAIN map}

\* A differ that takes the set difference of line 760 the other way round.
RemovedBridges_Swapped(prev_physnet_map, new_physnet_map, renamed) ==
    sorted((MapValues(new_physnet_map) \ MapValues(prev_physnet_map))
            \ {renamed[k][1] : k \in 1..Len(renamed)})

\* A differ that forgets the renames when it looks for removed bridges.
RemovedBridges_IgnoreRenames(prev_physnet_map, new_physnet_map, renamed) ==
    sorted(MapValues(prev_physnet_map) \ MapValues(new_physnet_map))

\* Lines 757-761.
RemovedBridges(prev_physnet_map, new_physnet_map, renamed) ==
    sorted((MapValues(prev_physnet_map) \ MapValues(new_physnet_map))
            \ {renamed[k][1] : k \in 1..Len(renamed)})

\* A differ that reports only the first of the bridges to create.
AddedBridges_FirstOnly(prev_physnet_map, new_physnet_map, renamed) ==
    LET all == sorted((MapValues(new_physnet_map) \ MapValues(prev_physnet_map))
                        \ {renamed[k][2] : k \in 1..Len(renamed)})
    IN IF all = <<>> THEN <<>> ELSE <<Head(all)>>

\* Lines 763-765.
AddedBridges(prev_physnet_map, new_physnet_map, renamed) ==
    sorted((MapValues(new_physnet_map) \ MapValues(prev_physnet_map))
            \ {renamed[k][2] : k \in 1..Len(renamed)})

\* status["interface_changes"][bridge] = entry, on a dict kept as the sequence
\* of its items in insertion order: an existing key keeps its place.
DictSet(items, bridge, entry) ==
    IF \E k \in 1..Len(items) : items[k].bridge = bridge
    THEN [k \in 1..Len(items) |->
            IF items[k].bridge = bridge
            THEN [bridge |-> bridge, removed |-> entry.removed, added |-> entry.added]
            ELSE items[k]]
    ELSE Append(items, [bridge |-> bridge, removed |-> entry.removed, added |-> entry.added])

\* A differ that compares interfaces only for physnets present on both sides.
SkipPhysnet_OneSided(prev_bridge, new_bridge) == prev_bridge = None \/ new_bridge = None

\* Line 773: the physnets the second loop skips.
SkipPhysnet(prev_bridge, new_bridge) == prev_bridge = None /\ new_bridge = None

\* Lines 769-794, one iteration.
InterfaceChange(items, physnet, previous_mapping, new_mapping) ==
    LET prev_bridge == Get(PhysnetMap(previous_mapping), physnet)
        new_bridge == Get(PhysnetMap(new_mapping), physnet)
        tracking_bridge == IF prev_bridge /= None THEN prev_bridge ELSE new_bridge
        prev_interfaces == IF prev_bridge /= None
                           THEN Get(BridgeInterfaces(previous_mapping), prev_bridge)
                           ELSE {}
        new_interfaces == IF new_bridge /= None
                          THEN Get(BridgeInterfaces(new_mapping), new_bridge)
                          ELSE {}
        removed == prev_interfaces \ new_interfaces
        added == new_interfaces \ prev_interfaces
    IN IF SkipPhysnet(prev_bridge, new_bridge) THEN items
       ELSE IF removed /= {} \/ added /= {}
       THEN DictSet(items, tracking_bridge,
                    [removed |-> sorted(removed), added |-> sorted(added)])
       ELSE items

RECURSIVE InterfaceChanges(_, _, _, _)
InterfaceChanges(items, order, previous_mapping, new_mapping) ==
    IF order = <<>> THEN items
    ELSE InterfaceChanges(
            InterfaceChange(items, Head(order), previous_mapping, new_mapping),
            Tail(order), previous_mapping, new_mapping)

\* order: the order in which the set all_physnets is iterated (both loops walk
\* the same unmodified set, so they see the same order).
resolve_ovs_changes(previous_mapping, new_mapping, order) ==
    LET prev_physnet_map == PhysnetMap(previous_mapping)
        new_physnet_map == PhysnetMap(new_mapping)
        renamed == RenamedBridges(prev_physnet_map, new_physnet_map, order)
    IN [renamed_bridges |-> renamed,
        added_bridges |-> AddedBridges(prev_physnet_map, new_physnet_map, renamed),
        removed_bridges |-> RemovedBridges(prev_physnet_map, new_physnet_map, renamed),
        interface_changes |-> InterfaceChanges(<<>>, order, previous_mapping, new_mapping)]

----------------------------------------------------------------------------
\* update_mappings_from_rename

\* A rename dictionary keyed the other way round: old -> new.
RenameDict_OldToNew(renames) ==
    [o \in {renames[k][1] : k \in 1..Len(renames)} |->
        LET last == CHOOSE k \in 1..Len(renames) :
                        /\ renames[k][1] = o
                        /\ \A j \in (k + 1)..Len(renames) : renames[j][1] /= o
        IN renames[last][2]]

\* dict((new_name, old_name) for old_name, new_name in renames): new -> old,
\* a later pair for the same new name overwrites an earlier one.
RenameDict(renames) ==
    [n \in {renames[k][2] : k \in 1..Len(renames)} |->
        LET last == CHOOSE k \in 1..Len(renames) :
                        /\ renames[k][2] = n
                        /\ \A j \in (k + 1)..Len(renames) : renames[j][2] /= n
        IN renames[last][1]]

\* An adapter that leaves the declared bridge names as they are.
update_mappings_KeepNewNames(ms, renames) == ms

update_mappings_from_rename(ms, renames) ==
    IF renames = <<>> THEN ms
    ELSE LET rename_dict == RenameDict(renames)
         IN [k \in 1..Len(ms) |->
                IF ms[k].bridge \notin DOMAIN rename_dict THEN ms[k]
                ELSE BridgeMapping(rename_dict[ms[k].bridge], ms[k].physnet,
                                   ms[k].interface)]

----------------------------------------------------------------------------
\* configure_ovn_external_networking: the pass as a sequence of steps.

Call(op, br, ifc, phy, src) == [op |-> op, br |-> br, ifc |-> ifc, phy |-> phy, src |-> src]

NoChanges == [renamed_bridges |-> <<>>, added_bridges |-> <<>>,
              removed_bridges |-> <<>>, interface_changes |-> <<>>]

\* The (bridge, interface) pairs the loops of lines 211-214 visit, in order.
RECURSIVE DetachWork(_)
DetachWork(items) ==
    IF items = <<>> THEN <<>>
    ELSE [k \in 1..Len(Head(items).removed) |-> <<Head(items).bridge, Head(items).removed[k]>>]
         \o DetachWork(Tail(items))

Indices(s) == [k \in 1..Len(s) |-> k]

\* A pass that deletes the bridges before it detaches the removed interfaces.
PhaseOrder_DeleteFirst == <<"delbr", "detach", "addbr", "publish", "wait", "enforce",
                            "mac", "gateway", "done">>

\* A pass that publishes the physnet mapping before it deletes the bridges.
PhaseOrder_PublishFirst == <<"detach", "publish", "delbr", "addbr", "wait", "enforce",
                             "mac", "gateway", "done">>

\* A pass that enforces the uplinks before it waits for the bridge interfaces.
PhaseOrder_EnforceFirst == <<"detach", "delbr", "addbr", "publish", "enforce", "wait",
                             "mac", "gateway", "done">>

\* The statements of lines 211-268 in program order.
PhaseOrder == <<"detach", "delbr", "addbr", "publish", "wait", "enforce",
                "mac", "gateway", "done">>

\* What the loop of a phase iterates over (a single statement: one item).
PhaseWork(phase, ch, ms) ==
    CASE phase = "detach" -> DetachWork(ch.interface_changes)
      [] phase = "delbr" -> ch.removed_bridges
      [] phase = "addbr" -> ch.added_bridges
      [] phase = "wait" -> Indices(ms)
      [] phase = "enforce" -> Indices(ms)
      [] phase = "done" -> <<>>
      [] OTHER -> <<0>>

\* Control reaches the k-th phase: a loop with nothing to iterate is passed.
RECURSIVE Enter(_, _, _)
Enter(k, ch, ms) ==
    IF k >= Len(PhaseOrder) THEN [pc |-> "done", work |-> <<>>]
    ELSE IF PhaseWork(PhaseOrder[k], ch, ms) /= <<>>
    THEN [pc |-> PhaseOrder[k], work |-> PhaseWork(PhaseOrder[k], ch, ms)]
    ELSE Enter(k + 1, ch, ms)

PhaseIndex(phase) == CHOOSE k \in 1..Len(PhaseOrder) : PhaseOrder[k] = phase

\* One iteration of the loop at pc is over.
Advance(rest, ch, ms) ==
    IF rest /= <<>> THEN [pc |-> pc, work |-> rest]
    ELSE Enter(PhaseIndex(pc) + 1, ch, ms)

\* _get_external_ports_on_bridge
get_external_ports_on_bridge(ports, tagged, bridge) ==
    SelectSeq(list_bridge_interfaces(ports, bridge), LAMBDA i : i \in tagged)

\* _del_interface_from_bridge: del-port only when the NIC is on the bridge.
DelPortIssued(ports, bridge, nic) == nic \in Range(list_bridge_interfaces(ports, bridge))

\* src and phy only label the entries of the call log: the loop the call comes
\* from, and the physnet of the mapping it is made for (None in lines 211-214).
del_interface_from_bridge(src, phy, ports, tagged, bridge, nic) ==
    IF DelPortIssued(ports, bridge, nic)
    THEN [ports |-> [ports EXCEPT ![nic] = None],
          tagged |-> tagged \ {nic},
          calls |-> <<Call("detach", bridge, nic, phy, src),
                      Call("del-port", bridge, nic, phy, src)>>]
    ELSE [ports |-> ports, tagged |-> tagged,
          calls |-> <<Call("detach", bridge, nic, phy, src)>>]

\* The tokens of network.bridge-mapping: bridge:physnet and bridge:physnet:interface.
\* The tokens of network.bridge-mapping: bridge:physnet, bridge:physnet:iface
\* and one token with a single field.
Tokens == {<<b, p>> : b \in Bridges, p \in Physnets}
          \cup {<<b, p, i>> : b \in Bridges, p \in Physnets, i \in Ifaces}
          \cup {<<1>>}

\* The deprecated network.bridge / network.physnet / network.interface options.
LegacyTriples == {<<None, None, None>>, <<NB, None, NI>>, <<NB, NP, None>>, <<NB, NP, NI>>}

\* The values of external_ids:ovn-bridge-mappings: what line 239 writes has one
\* pair per mapping of a resolved list, so no physnet twice.
SwitchRecords ==
    {r \in SeqsUpTo(Physnets \X Bridges, NP) :
        \A j, k \in 1..Len(r) : j /= k => r[j][1] /= r[k][1]}

Init ==
    /\ ovsBridges \in {S \cup {INTEGRATION_BRIDGE} : S \in SUBSET Bridges}
    /\ ovsPorts \in [Ifaces -> (ovsBridges \ {INTEGRATION_BRIDGE}) \cup {None}]
    /\ ovsTagged \in SUBSET {i \in Ifaces : ovsPorts[i] /= None}
    /\ ovsMappings \in SwitchRecords
    /\ ovsMacMappings = <<>>
    /\ ovsGateway = FALSE
    /\ enable_chassis_as_gw \in BOOLEAN
    /\ \/ /\ bridge_mapping \in SeqsUpTo(Tokens, MaxTokens) \ {<<>>}
          /\ legacy = <<None, None, None>>
       \/ /\ bridge_mapping = <<>>
          /\ legacy \in LegacyTriples
    /\ pc = "resolve"
    /\ mappings = <<>>
    /\ current_mappings = <<>>
    /\ changes = NoChanges
    /\ work = <<>>
    /\ extTodo = <<>>
    /\ calls = <<>>
    /\ pass = 1
    /\ desired0 = <<>>
    /\ lastPublished = <<>>
    /\ elapsed = 0
    /\ links = {}
    /\ failing = NoFailures
    /\ error = NoError
    /\ mac_args = <<DEFAULT_LAA_MAC_PREFIX, 1, 1>>
    /\ mac_result = NotCalled
    /\ NewOVSCli

\* A pass that reads the switch before it looks at its options.
Resolve_DetectsFirst ==
    /\ pc = "resolve"
    /\ current_mappings' = detect_current_mappings(ovsBridges, ovsMappings, ovsPorts, failing)
    /\ LET r == resolve_bridge_mappings(legacy[1], legacy[2], legacy[3], bridge_mapping)
       IN IF r.err /= ""
          THEN /\ pc' = "raised"
               /\ error' = [err |-> r.err, value |-> r.value]
               /\ UNCHANGED <<mappings, desired0>>
          ELSE /\ pc' = "diff"
               /\ mappings' = r.mappings
               /\ desired0' = r.mappings
               /\ UNCHANGED error
    /\ UNCHANGED <<switchVars, inputVars, changes, work, extTodo,
                   calls, pass, lastPublished, elapsed, links, failing, macVars, cliVars>>

\* Lines 198-203; a ValueError of the resolver leaves the function.
Resolve ==
    /\ pc = "resolve"
    /\ LET r == resolve_bridge_mappings(legacy[1], legacy[2], legacy[3], bridge_mapping)
       IN IF r.err /= ""
          THEN /\ pc' = "raised"
               /\ error' = [err |-> r.err, value |-> r.value]
               /\ UNCHANGED <<mappings, desired0>>
          ELSE /\ pc' = "detect"
               /\ mappings' = r.mappings
               /\ desired0' = r.mappings
               /\ UNCHANGED error
    /\ UNCHANGED <<switchVars, inputVars, current_mappings, changes, work, extTodo,
                   calls, pass, lastPublished, elapsed, links, failing, macVars, cliVars>>

\* Line 204.
Detect ==
    /\ pc = "detect"
    /\ current_mappings' = detect_current_mappings(ovsBridges, ovsMappings, ovsPorts, failing)
    /\ pc' = "diff"
    /\ UNCHANGED <<switchVars, inputVars, mappings, changes, work, extTodo, calls,
                   pass, desired0, lastPublished, hostVars, macVars, cliVars>>

\* Lines 206-209.
Diff ==
    /\ pc = "diff"
    /\ \E order \in Perms(AllPhysnets(current_mappings, mappings)) :
          LET ch == resolve_ovs_changes(current_mappings, mappings, order)
              ms == update_mappings_from_rename(mappings, ch.renamed_bridges)
              next == Enter(1, ch, ms)
          IN /\ changes' = ch
             /\ mappings' = ms
             /\ pc' = next.pc
             /\ work' = next.work
    /\ UNCHANGED <<switchVars, inputVars, current_mappings, extTodo, calls, pass,
                   desired0, lastPublished, hostVars, macVars, cliVars>>

\* Lines 211-214, one call of _del_interface_from_bridge.
DetachRemoved ==
    /\ pc = "detach"
    /\ LET bridge == Head(work)[1]
           iface == Head(work)[2]
           r == del_interface_from_bridge("changeset", None, ovsPorts, ovsTagged, bridge, iface)
           next == Advance(Tail(work), changes, mappings)
       IN IF bridge \notin ovsBridges
          THEN /\ pc' = "failed"
               /\ calls' = Append(calls, Call("detach", bridge, iface, None, "changeset"))
               /\ UNCHANGED <<ovsPorts, ovsTagged, work>>
          ELSE /\ ovsPorts' = r.ports
               /\ ovsTagged' = r.tagged
               /\ calls' = calls \o r.calls
               /\ pc' = next.pc
               /\ work' = next.work
    /\ UNCHANGED <<ovsBridges, ovsMappings, ovsMacMappings, ovsGateway, inputVars, mappings,
                   current_mappings, changes, extTodo, pass, desired0, lastPublished, hostVars, macVars, cliVars>>

\* Lines 217-219, one del-br: the bridge goes with its ports.
DeleteBridge ==
    /\ pc = "delbr"
    /\ LET bridge == Head(work)
           next == Advance(Tail(work), changes, mappings)
       IN /\ calls' = Append(calls, Call("del-br", bridge, None, None, ""))
          /\ IF bridge \notin ovsBridges
             THEN /\ pc' = "failed"
                  /\ UNCHANGED <<ovsBridges, ovsPorts, ovsTagged, work>>
             ELSE /\ ovsBridges' = ovsBridges \ {bridge}
                  /\ ovsPorts' = [i \in Ifaces |->
                                    IF ovsPorts[i] = bridge THEN None ELSE ovsPorts[i]]
                  /\ ovsTagged' = {i \in ovsTagged : ovsPorts[i] /= bridge}
                  /\ pc' = next.pc
                  /\ work' = next.work
    /\ UNCHANGED <<ovsMappings, ovsMacMappings, ovsGateway, inputVars, mappings,
                   current_mappings, changes, extTodo, pass, desired0, lastPublished, hostVars, macVars, cliVars>>

\* Lines 221-233, one --may-exist add-br.
AddBridge ==
    /\ pc = "addbr"
    /\ LET bridge == Head(work)
           next == Advance(Tail(work), changes, mappings)
       IN /\ calls' = Append(calls, Call("add-br", bridge, None, None, ""))
          /\ ovsBridges' = ovsBridges \cup {bridge}
          /\ pc' = next.pc
          /\ work' = next.work
    /\ UNCHANGED <<ovsPorts, ovsTagged, ovsMappings, ovsMacMappings, ovsGateway, inputVars,
                   mappings, current_mappings, changes, extTodo, pass, desired0,
                   lastPublished, hostVars, macVars, cliVars>>

\* physnet_bridge_pair of every mapping, joined.
BridgeMappingsValue(ms) == [k \in 1..Len(ms) |-> <<ms[k].physnet, ms[k].bridge>>]

\* Lines 235-241: the record is written whole.
Publish ==
    /\ pc = "publish"
    /\ LET next == Advance(<<>>, changes, mappings)
       IN /\ ovsMappings' = BridgeMappingsValue(mappings)
          /\ calls' = Append(calls, Call("set-bridge-mappings", None, None, None, ""))
          /\ pc' = next.pc
          /\ work' = next.work
    /\ UNCHANGED <<ovsBridges, ovsPorts, ovsTagged, ovsMacMappings, ovsGateway, inputVars,
                   mappings, current_mappings, changes, extTodo, pass, desired0,
                   lastPublished, hostVars, macVars, cliVars>>

\* Lines 243-244 with _wait_for_interface: the link of the bridge shows up.
WaitForInterface ==
    /\ pc = "wait"
    /\ LET m == mappings[Head(work)]
           next == Advance(Tail(work), changes, mappings)
       IN /\ calls' = Append(calls, Call("wait", m.bridge, None, m.physnet, ""))
          /\ pc' = next.pc
          /\ work' = next.work
    /\ UNCHANGED <<switchVars, inputVars, mappings, current_mappings, changes, extTodo,
                   pass, desired0, lastPublished, hostVars, macVars, cliVars>>

\* Line 113: the link never shows up and the wait raises TimeoutError.
WaitTimeout ==
    /\ pc = "wait"
    /\ LET m == mappings[Head(work)]
       IN calls' = Append(calls, Call("wait", m.bridge, None, m.physnet, ""))
    /\ pc' = "timeout"
    /\ UNCHANGED <<switchVars, inputVars, mappings, current_mappings, changes, work,
                   extTodo, pass, desired0, lastPublished, hostVars, macVars, cliVars>>

\* _wait_for_interface poll by poll (lines 109-115); WaitForInterface and
\* WaitTimeout above are the two ways this loop ends.
\* Line 111: the lookup finds the interface of the bridge and the wait returns.
WaitFound ==
    /\ pc = "wait"
    /\ mappings[Head(work)].bridge \in links
    /\ LET m == mappings[Head(work)]
           next == Advance(Tail(work), changes, mappings)
       IN /\ calls' = Append(calls, Call("wait", m.bridge, None, m.physnet, ""))
          /\ pc' = next.pc
          /\ work' = next.work
    /\ elapsed' = 0
    /\ UNCHANGED <<switchVars, inputVars, mappings, current_mappings, changes, extTodo,
                   pass, desired0, lastPublished, links, failing, error, macVars, cliVars>>

\* Lines 112-115: not found and not over the limit: time.sleep(1), which takes
\* at least one time unit.
WaitSleep ==
    /\ pc = "wait"
    /\ mappings[Head(work)].bridge \notin links
    /\ ~(elapsed > WAIT_TIMEOUT)
    /\ \E d \in 1..MaxSleep : elapsed' = elapsed + d
    /\ UNCHANGED <<switchVars, inputVars, pc, mappings, current_mappings, changes, work,
                   extTodo, calls, pass, desired0, lastPublished, links, failing, error, macVars, cliVars>>

\* A wait that gives up at the first poll that does not find the interface.
WaitRaise_Impatient ==
    /\ pc = "wait"
    /\ mappings[Head(work)].bridge \notin links
    /\ LET m == mappings[Head(work)]
       IN calls' = Append(calls, Call("wait", m.bridge, None, m.physnet, ""))
    /\ pc' = "timeout"
    /\ UNCHANGED <<switchVars, inputVars, mappings, current_mappings, changes, work,
                   extTodo, pass, desired0, lastPublished, hostVars, macVars, cliVars>>

\* Lines 112-113: not found and more than WAIT_TIMEOUT elapsed: TimeoutError.
WaitRaise ==
    /\ pc = "wait"
    /\ mappings[Head(work)].bridge \notin links
    /\ elapsed > WAIT_TIMEOUT
    /\ LET m == mappings[Head(work)]
       IN calls' = Append(calls, Call("wait", m.bridge, None, m.physnet, ""))
    /\ pc' = "timeout"
    /\ UNCHANGED <<switchVars, inputVars, mappings, current_mappings, changes, work,
                   extTodo, pass, desired0, lastPublished, hostVars, macVars, cliVars>>

\* The host creates the interface of a bridge while the pass waits.
LinkAppears ==
    /\ pc = "wait"
    /\ \E b \in {mappings[k].bridge : k \in 1..Len(mappings)} \ links :
          links' = links \cup {b}
    /\ UNCHANGED <<switchVars, inputVars, pc, mappings, current_mappings, changes, work,
                   extTodo, calls, pass, desired0, lastPublished, elapsed, failing, error, macVars, cliVars>>

\* Lines 246-254, the start of one iteration: the external ports of the bridge
\* are read, and for a mapping with an interface _ensure_single_nic_on_bridge
\* attaches it (lines 126-130, _add_interface_to_bridge).  list-ifaces fails
\* for a bridge the switch does not have; add-port fails for a port that
\* exists on another bridge.
EnforceBegin ==
    /\ pc = "enforce"
    /\ LET m == mappings[Head(work)]
           external_ports == get_external_ports_on_bridge(ovsPorts, ovsTagged, m.bridge)
           connected == m.interface \in Range(list_bridge_interfaces(ovsPorts, m.bridge))
           entry == IF m.interface /= None
                    THEN Call("ensure_single_nic", m.bridge, m.interface, m.physnet, "enforce")
                    ELSE Call("del_external_nics", m.bridge, None, m.physnet, "enforce")
           addport == Call("add-port", m.bridge, m.interface, m.physnet, "enforce")
       IN IF m.bridge \notin ovsBridges
          THEN /\ pc' = "failed"
               /\ calls' = Append(calls, entry)
               /\ UNCHANGED <<ovsPorts, ovsTagged, extTodo>>
          ELSE IF m.interface = None
          THEN /\ pc' = "enforce_del"
               /\ calls' = Append(calls, entry)
               /\ extTodo' = external_ports
               /\ UNCHANGED <<ovsPorts, ovsTagged>>
          ELSE IF m.interface \in Range(external_ports) \/ connected
          THEN /\ pc' = "enforce_del"
               /\ calls' = Append(calls, entry)
               /\ extTodo' = SelectSeq(external_ports, LAMBDA p : p /= m.interface)
               /\ UNCHANGED <<ovsPorts, ovsTagged>>
          ELSE IF ovsPorts[m.interface] /= None
          THEN /\ pc' = "failed"
               /\ calls' = calls \o <<entry, addport>>
               /\ UNCHANGED <<ovsPorts, ovsTagged, extTodo>>
          ELSE /\ pc' = "enforce_del"
               /\ calls' = calls \o <<entry, addport>>
               /\ ovsPorts' = [ovsPorts EXCEPT ![m.interface] = m.bridge]
               /\ ovsTagged' = ovsTagged \cup {m.interface}
               /\ extTodo' = SelectSeq(external_ports, LAMBDA p : p /= m.interface)
    /\ UNCHANGED <<ovsBridges, ovsMappings, ovsMacMappings, ovsGateway, inputVars, mappings,
                   current_mappings, changes, work, pass, desired0, lastPublished, hostVars, macVars, cliVars>>

\* Lines 131-136 and 61-62: one _del_interface_from_bridge of the enforcement.
EnforceDetach ==
    /\ pc = "enforce_del"
    /\ extTodo /= <<>>
    /\ LET m == mappings[Head(work)]
           r == del_interface_from_bridge("enforce", m.physnet, ovsPorts, ovsTagged, m.bridge,
                                          Head(extTodo))
       IN /\ ovsPorts' = r.ports
          /\ ovsTagged' = r.tagged
          /\ calls' = calls \o r.calls
          /\ extTodo' = Tail(extTodo)
    /\ UNCHANGED <<ovsBridges, ovsMappings, ovsMacMappings, ovsGateway, inputVars, pc,
                   mappings, current_mappings, changes, work, pass, desired0,
                   lastPublished, hostVars, macVars, cliVars>>

\* Line 251 (_ensure_link_up, only for a mapping with an interface) and the
\* end of the iteration.
EnforceEnd ==
    /\ pc = "enforce_del"
    /\ extTodo = <<>>
    /\ LET m == mappings[Head(work)]
           next == Enter(IF Tail(work) /= <<>> THEN PhaseIndex("enforce")
                         ELSE PhaseIndex("enforce") + 1, changes, mappings)
       IN /\ calls' = IF m.interface /= None
                      THEN Append(calls, Call("link-up", m.bridge, m.interface, m.physnet,
                                              "enforce"))
                      ELSE calls
          /\ pc' = next.pc
          /\ work' = IF Tail(work) /= <<>> THEN Tail(work) ELSE next.work
    /\ UNCHANGED <<switchVars, inputVars, mappings, current_mappings, changes, extTodo,
                   pass, desired0, lastPublished, hostVars, macVars, cliVars>>

\* A pass that reads the machine id again for every mapping.
PublishMac_ReadPerMapping ==
    /\ pc = "mac"
    /\ \E ids \in [1..Len(mappings) -> MachineIds] :
          LET next == Advance(<<>>, changes, mappings)
          IN /\ ovsMacMappings' = [k \in 1..Len(mappings) |->
                                      physnet_mac_pair(mappings[k], ids[k])]
             /\ calls' = calls
                            \o [k \in 1..Len(mappings) |->
                                   Call("get-machine-id", None, None, None, "")]
                            \o <<Call("set-mac-mappings", None, None, None, "")>>
             /\ pc' = next.pc
             /\ work' = next.work
    /\ UNCHANGED <<ovsBridges, ovsPorts, ovsTagged, ovsMappings, ovsGateway, inputVars,
                   mappings, current_mappings, changes, extTodo, pass, desired0,
                   lastPublished, hostVars, macVars, cliVars>>

\* Lines 255-263: get_machine_id reads /etc/machine-id, then one write of the
\* physnet:MAC pairs.
PublishMac ==
    /\ pc = "mac"
    /\ \E machine_id \in MachineIds :
          LET next == Advance(<<>>, changes, mappings)
          IN /\ ovsMacMappings' = [k \in 1..Len(mappings) |->
                                      physnet_mac_pair(mappings[k], machine_id)]
             /\ calls' = calls \o <<Call("get-machine-id", None, None, None, ""),
                                    Call("set-mac-mappings", None, None, None, "")>>
             /\ pc' = next.pc
             /\ work' = next.work
    /\ UNCHANGED <<ovsBridges, ovsPorts, ovsTagged, ovsMappings, ovsGateway, inputVars,
                   mappings, current_mappings, changes, extTodo, pass, desired0,
                   lastPublished, hostVars, macVars, cliVars>>

\* A pass that sets the gateway option whatever the flag is.
Gateway_AlwaysSet ==
    /\ pc = "gateway"
    /\ ovsGateway' = TRUE
    /\ calls' = Append(calls, Call("enable-gw", None, None, None, ""))
    /\ pc' = "done"
    /\ work' = <<>>
    /\ UNCHANGED <<ovsBridges, ovsPorts, ovsTagged, ovsMappings, ovsMacMappings, inputVars,
                   mappings, current_mappings, changes, extTodo, pass, desired0,
                   lastPublished, hostVars, macVars, cliVars>>

\* Lines 265-268.
Gateway ==
    /\ pc = "gateway"
    /\ ovsGateway' = enable_chassis_as_gw
    /\ calls' = Append(calls,
          Call(IF enable_chassis_as_gw THEN "enable-gw" ELSE "disable-gw",
               None, None, None, ""))
    /\ pc' = "done"
    /\ work' = <<>>
    /\ UNCHANGED <<ovsBridges, ovsPorts, ovsTagged, ovsMappings, ovsMacMappings, inputVars,
                   mappings, current_mappings, changes, extTodo, pass, desired0,
                   lastPublished, hostVars, macVars, cliVars>>

\* A pass that answers a failed command by putting back the physnet mapping
\* it found.
CommandFails_RollsBack ==
    /\ pc \in {"detach", "delbr", "addbr", "publish", "enforce", "enforce_del",
               "mac", "gateway"}
    /\ pc = "enforce_del" => extTodo /= <<>>
    /\ pc' = "failed"
    /\ ovsMappings' = lastPublished
    /\ UNCHANGED <<ovsBridges, ovsPorts, ovsTagged, ovsMacMappings, ovsGateway, inputVars,
                   mappings, current_mappings, changes, work, extTodo, calls, pass,
                   desired0, lastPublished, hostVars, macVars, cliVars>>

\* An ovs-vsctl command of the step at pc fails (OVSCommandError, line 213):
\* nothing is retried and the exception leaves the function.
CommandFails ==
    /\ pc \in {"detach", "delbr", "addbr", "publish", "enforce", "enforce_del",
               "mac", "gateway"}
    /\ pc = "enforce_del" => extTodo /= <<>>
    /\ pc' = "failed"
    /\ UNCHANGED <<switchVars, inputVars, mappings, current_mappings, changes, work,
                   extTodo, calls, pass, desired0, lastPublished, hostVars, macVars, cliVars>>

\* The configure hook runs again with the same options, after a pass that
\* returned normally and with no change to the switch in between.
NextPass ==
    /\ pc = "done"
    /\ pass < MaxPasses
    /\ pass' = pass + 1
    /\ lastPublished' = ovsMappings
    /\ pc' = "resolve"
    /\ mappings' = <<>>
    /\ current_mappings' = <<>>
    /\ changes' = NoChanges
    /\ work' = <<>>
    /\ extTodo' = <<>>
    /\ calls' = <<>>
    /\ desired0' = <<>>
    /\ UNCHANGED <<switchVars, inputVars, hostVars, macVars, cliVars>>

Next ==
    \/ Resolve
    \/ Detect
    \/ Diff
    \/ DetachRemoved
    \/ DeleteBridge
    \/ AddBridge
    \/ Publish
    \/ WaitForInterface
    \/ WaitTimeout
    \/ EnforceBegin
    \/ EnforceDetach
    \/ EnforceEnd
    \/ PublishMac
    \/ Gateway
    \/ CommandFails
    \/ NextPass

Spec == Init /\ [][Next]_vars

----------------------------------------------------------------------------
\* resolve_ovs_changes on its own: lines 206-209 applied to every pair of a
\* previous and a new list.

\* The lists resolve_bridge_mappings returns.
ResolvedLists ==
    {resolve_bridge_mappings(None, None, None, t).mappings :
        t \in {u \in SeqsUpTo(Tokens, MaxTokens) :
                  resolve_bridge_mappings(None, None, None, u).err = ""}}

\* The lists detect_current_mappings returns.
DetectedLists ==
    {detect_current_mappings(S \cup {INTEGRATION_BRIDGE}, r, p, NoFailures) :
        S \in SUBSET Bridges, r \in SwitchRecords, p \in [Ifaces -> Bridges \cup {None}]}

InitDiff ==
    /\ ovsBridges = {INTEGRATION_BRIDGE}
    /\ ovsPorts = [i \in Ifaces |-> None]
    /\ ovsTagged = {}
    /\ ovsMappings = <<>>
    /\ ovsMacMappings = <<>>
    /\ ovsGateway = FALSE
    /\ enable_chassis_as_gw = FALSE
    /\ bridge_mapping = <<>>
    /\ legacy = <<None, None, None>>
    /\ pc = "diff"
    /\ current_mappings \in DetectedLists \cup ResolvedLists
    /\ mappings \in ResolvedLists
    /\ desired0 = mappings
    /\ changes = NoChanges
    /\ work = <<>>
    /\ extTodo = <<>>
    /\ calls = <<>>
    /\ pass = 1
    /\ lastPublished = <<>>
    /\ elapsed = 0
    /\ links = {}
    /\ failing = NoFailures
    /\ error = NoError
    /\ mac_args = <<DEFAULT_LAA_MAC_PREFIX, 1, 1>>
    /\ mac_result = NotCalled
    /\ NewOVSCli

NextDiff == Diff

SpecDiff == InitDiff /\ [][NextDiff]_vars

----------------------------------------------------------------------------
\* detect_current_mappings on every switch state it can be asked about: any
\* set of bridges (none at all, with or without br-int), any record of
\* physnet:bridge pairs (an empty physnet, br-int, a bridge twice), NICs and
\* interfaces named like a bridge among the listed interfaces, and any
\* combination of failing read commands.

\* The interface names list-ifaces can return: the NICs and the bridge names.
ListedIfaces == Ifaces \cup {NI + b : b \in Bridges}

InitDetect ==
    /\ ovsBridges \in SUBSET (Bridges \cup {INTEGRATION_BRIDGE})
    /\ ovsPorts \in [ListedIfaces -> (ovsBridges \ {INTEGRATION_BRIDGE}) \cup {None}]
    /\ ovsTagged = {}
    /\ ovsMappings \in SeqsUpTo((Physnets \cup {None}) \X (Bridges \cup {INTEGRATION_BRIDGE}), NP)
    /\ ovsMacMappings = <<>>
    /\ ovsGateway = FALSE
    /\ enable_chassis_as_gw = FALSE
    /\ bridge_mapping = <<>>
    /\ legacy = <<None, None, None>>
    /\ pc = "detect"
    /\ mappings = <<>>
    /\ current_mappings = <<>>
    /\ changes = NoChanges
    /\ work = <<>>
    /\ extTodo = <<>>
    /\ calls = <<>>
    /\ pass = 1
    /\ desired0 = <<>>
    /\ lastPublished = <<>>
    /\ elapsed = 0
    /\ links = {}
    /\ failing \in [list_bridges : BOOLEAN, get_bridge_physnet_map : BOOLEAN,
                     list_bridge_interfaces : SUBSET Bridges]
    /\ error = NoError
    /\ mac_args = <<DEFAULT_LAA_MAC_PREFIX, 1, 1>>
    /\ mac_result = NotCalled
    /\ NewOVSCli

NextDetect == Detect

SpecDetect == InitDetect /\ [][NextDetect]_vars

----------------------------------------------------------------------------
\* resolve_bridge_mappings on every configuration: any legacy triple next to
\* any mapping string, including the blank string (one empty token after
\* strip and split), repeated spaces (an empty token between two tokens),
\* tokens with one or four fields and a token with an empty third field.

AnyTokens == Tokens \cup {<<1, 1, 1, 1>>, <<1, 2, None>>}

\* The token lists strip().split(" ") can return: an empty token is the whole
\* list or lies between two tokens.
MappingStrings ==
    {<<>>, << <<>> >>}
        \cup {t \in SeqsUpTo(AnyTokens \cup {<<>>}, MaxSplit) :
                 t /= <<>> /\ t[1] /= <<>> /\ t[Len(t)] /= <<>>}

InitResolve ==
    /\ ovsBridges = {INTEGRATION_BRIDGE}
    /\ ovsPorts = [i \in Ifaces |-> None]
    /\ ovsTagged = {}
    /\ ovsMappings = <<>>
    /\ ovsMacMappings = <<>>
    /\ ovsGateway = FALSE
    /\ enable_chassis_as_gw = FALSE
    /\ bridge_mapping \in MappingStrings
    /\ legacy \in (Bridges \cup {None}) \X (Physnets \cup {None}) \X (Ifaces \cup {None})
    /\ pc = "resolve"
    /\ mappings = <<>>
    /\ current_mappings = <<>>
    /\ changes = NoChanges
    /\ work = <<>>
    /\ extTodo = <<>>
    /\ calls = <<>>
    /\ pass = 1
    /\ desired0 = <<>>
    /\ lastPublished = <<>>
    /\ elapsed = 0
    /\ links = {}
    /\ failing = NoFailures
    /\ error = NoError
    /\ mac_args = <<DEFAULT_LAA_MAC_PREFIX, 1, 1>>
    /\ mac_result = NotCalled
    /\ NewOVSCli

NextResolve == Resolve

SpecResolve == InitResolve /\ [][NextResolve]_vars

----------------------------------------------------------------------------
\* generate_stable_laa_mac on every prefix of one to MaxOctets fields of up
\* to MaxField characters.

PrefixFields == SeqsUpTo(PrefixChars, MaxField)

\* What prefix.split(":") can return: at least one field.
Prefixes == SeqsUpTo(PrefixFields, MaxOctets) \ {<<>>}

InitMac ==
    /\ ovsBridges = {INTEGRATION_BRIDGE}
    /\ ovsPorts = [i \in Ifaces |-> None]
    /\ ovsTagged = {}
    /\ ovsMappings = <<>>
    /\ ovsMacMappings = <<>>
    /\ ovsGateway = FALSE
    /\ enable_chassis_as_gw = FALSE
    /\ bridge_mapping = <<>>
    /\ legacy = <<None, None, None>>
    /\ pc = "derive"
    /\ mappings = <<>>
    /\ current_mappings = <<>>
    /\ changes = NoChanges
    /\ work = <<>>
    /\ extTodo = <<>>
    /\ calls = <<>>
    /\ pass = 1
    /\ desired0 = <<>>
    /\ lastPublished = <<>>
    /\ elapsed = 0
    /\ links = {}
    /\ failing = NoFailures
    /\ error = NoError
    /\ mac_args \in Prefixes \X Physnets \X MachineIds
    /\ mac_result = NotCalled
    /\ NewOVSCli

\* One call of generate_stable_laa_mac (lines 894-937).
DeriveMac ==
    /\ pc = "derive"
    /\ mac_result' = generate_stable_laa_mac(mac_args[1], mac_args[2], mac_args[3])
    /\ pc' = "derived"
    /\ UNCHANGED <<switchVars, inputVars, mappings, current_mappings, changes, work,
                   extTodo, calls, pass, desired0, lastPublished, hostVars, mac_args, cliVars>>

NextMac == DeriveMac

SpecMac == InitMac /\ [][NextMac]_vars

----------------------------------------------------------------------------
\* A program that uses one OVSCli object: it enters and leaves transaction
\* contexts, calls vsctl with and without skip_transaction, and calls commit.

InitCli ==
    /\ ovsBridges = {INTEGRATION_BRIDGE}
    /\ ovsPorts = [i \in Ifaces |-> None]
    /\ ovsTagged = {}
    /\ ovsMappings = <<>>
    /\ ovsMacMappings = <<>>
    /\ ovsGateway = FALSE
    /\ enable_chassis_as_gw = FALSE
    /\ bridge_mapping = <<>>
    /\ legacy = <<None, None, None>>
    /\ pc = "client"
    /\ mappings = <<>>
    /\ current_mappings = <<>>
    /\ changes = NoChanges
    /\ work = <<>>
    /\ extTodo = <<>>
    /\ calls = <<>>
    /\ pass = 1
    /\ desired0 = <<>>
    /\ lastPublished = <<>>
    /\ elapsed = 0
    /\ links = {}
    /\ failing = NoFailures
    /\ error = NoError
    /\ mac_args = <<DEFAULT_LAA_MAC_PREFIX, 1, 1>>
    /\ mac_result = NotCalled
    /\ NewOVSCli

passVars == <<switchVars, inputVars, pc, mappings, current_mappings, changes, work,
              extTodo, calls, pass, desired0, lastPublished, hostVars, macVars>>

\* transaction(), lines 128-132: OVSError when a transaction is active, which
\* is the case exactly when the call comes from the body of a context;
\* otherwise the context is entered with an empty queue.
TxnEnter ==
    /\ pc = "client"
    /\ IF in_transaction
       THEN /\ ovs_errors < MaxNested
            /\ ovs_errors' = ovs_errors + 1
            /\ UNCHANGED <<in_transaction, transaction_commands, executed, vsctl_calls,
                           outcome, txn_pc>>
       ELSE /\ Len(outcome) < MaxTxns
            /\ in_transaction' = TRUE
            /\ transaction_commands' = <<>>
            /\ outcome' = Append(outcome, "open")
            /\ txn_pc' = "body"
            /\ UNCHANGED <<executed, vsctl_calls, ovs_errors>>
    /\ UNCHANGED passVars

\* vsctl(), lines 241-246.
Vsctl ==
    /\ pc = "client"
    /\ Len(vsctl_calls) < MaxCmds
    /\ \E skip_transaction \in BOOLEAN :
          LET cmd == Len(vsctl_calls) + 1
          IN /\ vsctl_calls' = Append(vsctl_calls,
                    [skip_transaction |-> skip_transaction, txn |-> ActiveTxn])
             /\ IF in_transaction /\ ~skip_transaction
                THEN /\ transaction_commands' = Append(transaction_commands, cmd)
                     /\ UNCHANGED executed
                ELSE /\ executed' = Append(executed, Invocation(<<cmd>>, "vsctl"))
                     /\ UNCHANGED transaction_commands
    /\ UNCHANGED <<in_transaction, outcome, txn_pc, ovs_errors, passVars>>

\* commit() called by the user, lines 153-168: nothing with an empty queue,
\* else one invocation with all queued commands; the queue is emptied whether
\* the invocation succeeds or not.
Commit ==
    /\ pc = "client"
    /\ transaction_commands /= <<>>
    /\ executed' = Append(executed, Invocation(transaction_commands, "commit"))
    /\ transaction_commands' = <<>>
    /\ UNCHANGED <<in_transaction, vsctl_calls, outcome, txn_pc, ovs_errors, passVars>>

\* An exit that runs every queued command in an invocation of its own.
TxnExit_OneByOne ==
    /\ pc = "client"
    /\ txn_pc = "body"
    /\ \E ok \in BOOLEAN :
          /\ executed' = executed \o [k \in 1..Len(transaction_commands) |->
                               Invocation(<<transaction_commands[k]>>, "exit")]
          /\ outcome' = [outcome EXCEPT ![Len(outcome)] =
                            IF ok \/ transaction_commands = <<>>
                            THEN "normal" ELSE "commit_failed"]
    /\ in_transaction' = FALSE
    /\ transaction_commands' = <<>>
    /\ txn_pc' = "outside"
    /\ UNCHANGED <<vsctl_calls, ovs_errors, passVars>>

\* The body of the context ends normally, lines 134-139: commit, which runs
\* one invocation when the queue is not empty and may fail, then the finally
\* block.
TxnExit ==
    /\ pc = "client"
    /\ txn_pc = "body"
    /\ \E ok \in BOOLEAN :
          /\ executed' = IF transaction_commands = <<>> THEN executed
                         ELSE Append(executed, Invocation(transaction_commands, "exit"))
          /\ outcome' = [outcome EXCEPT ![Len(outcome)] =
                            IF ok \/ transaction_commands = <<>>
                            THEN "normal" ELSE "commit_failed"]
    /\ in_transaction' = FALSE
    /\ transaction_commands' = <<>>
    /\ txn_pc' = "outside"
    /\ UNCHANGED <<vsctl_calls, ovs_errors, passVars>>

\* An exit that runs the queued commands although the body raised.
TxnBodyRaises_Flushes ==
    /\ pc = "client"
    /\ txn_pc = "body"
    /\ executed' = IF transaction_commands = <<>> THEN executed
                   ELSE Append(executed, Invocation(transaction_commands, "exit"))
    /\ in_transaction' = FALSE
    /\ transaction_commands' = <<>>
    /\ outcome' = [outcome EXCEPT ![Len(outcome)] = "raised"]
    /\ txn_pc' = "outside"
    /\ UNCHANGED <<vsctl_calls, ovs_errors, passVars>>

\* The body of the context raises, lines 134-139: the exception is thrown at
\* the yield, commit is not reached, the finally block runs.
TxnBodyRaises ==
    /\ pc = "client"
    /\ txn_pc = "body"
    /\ in_transaction' = FALSE
    /\ transaction_commands' = <<>>
    /\ outcome' = [outcome EXCEPT ![Len(outcome)] = "raised"]
    /\ txn_pc' = "outside"
    /\ UNCHANGED <<executed, vsctl_calls, ovs_errors, passVars>>

NextCli ==
    \/ TxnEnter
    \/ Vsctl
    \/ Commit
    \/ TxnExit
    \/ TxnBodyRaises

SpecCli == InitCli /\ [][NextCli]_vars

----------------------------------------------------------------------------
\* Claims about OVSCli transactions (SpecCli)

\* How many times a command was handed to ovs-vsctl.
Times(cmd) ==
    Cardinality({kj \in (1..Len(executed)) \X (1..MaxCmds) :
                    /\ kj[2] <= Len(executed[kj[1]].cmds)
                    /\ executed[kj[1]].cmds[kj[2]] = cmd})

Queued(cmd) == \E k \in 1..Len(transaction_commands) : transaction_commands[k] = cmd

\* The step is a call of vsctl().
VsctlCalled == Len(vsctl_calls') = Len(vsctl_calls) + 1

\* The step leaves a context whose body did not raise.
BodyReturned ==
    /\ txn_pc = "body"
    /\ txn_pc' = "outside"
    /\ outcome'[Len(outcome')] /= "raised"

\* The step leaves a context whose body raised.
BodyRaised ==
    /\ txn_pc = "body"
    /\ txn_pc' = "outside"
    /\ outcome'[Len(outcome')] = "raised"

\* C29: inside a transaction context a vsctl call without skip_transaction
\* runs nothing and is appended to the queue, and a call with skip_transaction
\* (like any call outside a context) is run at once in an invocation of its
\* own and is not queued; when the body of a context returns, the commands in
\* the queue are run in one single invocation, in the order of their calls,
\* and nothing is run when the queue is empty; no command is ever handed to
\* ovs-vsctl twice, and once a context has exited normally every command
\* queued in it has run exactly once.
C29_TransactionBatches ==
    /\ [][VsctlCalled =>
            LET cmd == Len(vsctl_calls')
                c == vsctl_calls'[cmd]
            IN IF c.txn /= 0 /\ ~c.skip_transaction
               THEN /\ executed' = executed
                    /\ transaction_commands' = Append(transaction_commands, cmd)
               ELSE /\ executed' = Append(executed, Invocation(<<cmd>>, "vsctl"))
                    /\ transaction_commands' = transaction_commands]_vars
    /\ [][BodyReturned =>
            executed' = IF transaction_commands = <<>> THEN executed
                        ELSE Append(executed,
                                    Invocation(transaction_commands, "exit"))]_vars
    /\ [](\A cmd \in 1..Len(vsctl_calls) :
            LET c == vsctl_calls[cmd]
            IN /\ Times(cmd) <= 1
               /\ Queued(cmd) => Times(cmd) = 0 /\ ~c.skip_transaction /\ c.txn = ActiveTxn
               /\ c.skip_transaction \/ c.txn = 0 => Times(cmd) = 1
               /\ c.txn /= 0 /\ ~c.skip_transaction /\ outcome[c.txn] = "normal"
                    => Times(cmd) = 1)
    /\ [](\A k \in 1..Len(transaction_commands) : \A l \in 1..Len(transaction_commands) :
            k < l => transaction_commands[k] < transaction_commands[l])

\* A context has exited normally and ran two queued commands in one
\* invocation, and a call with skip_transaction was made inside a context.
C29_Witness ==
    /\ \E k \in 1..Len(executed) : executed[k].by = "exit" /\ Len(executed[k].cmds) = 2
    /\ \E cmd \in 1..Len(vsctl_calls) :
          vsctl_calls[cmd].skip_transaction /\ vsctl_calls[cmd].txn /= 0
    /\ \E t \in 1..Len(outcome) : outcome[t] = "normal"

\* C30 as stated: outside a context the client is not in transaction mode
\* and its queue is empty; no command queued in a context whose body raised
\* is ever run; transaction() inside a context raises OVSError and leaves
\* the queue as it was.
C30_NoCommandOfRaisedBodyRuns ==
    /\ [](txn_pc = "outside" => ~in_transaction /\ transaction_commands = <<>>)
    /\ [](\A cmd \in 1..Len(vsctl_calls) :
            LET c == vsctl_calls[cmd]
            IN c.txn /= 0 /\ ~c.skip_transaction /\ outcome[c.txn] = "raised"
                 => Times(cmd) = 0)
    /\ [][ovs_errors' /= ovs_errors =>
            /\ in_transaction /\ in_transaction'
            /\ transaction_commands' = transaction_commands
            /\ executed' = executed]_vars

\* C30: outside a context (after a normal exit, a raising body or a failed
\* commit) the client is not in transaction mode and its queue is empty; when
\* the body raises, the exit runs nothing, and a command queued in that
\* context has run only if commit() was called in the body after it was
\* queued; transaction() inside a context raises OVSError and leaves the
\* mode, the queue and the invocations as they were, and it raises exactly
\* when a context is active.
C30_ExitLeavesNoTransaction ==
    /\ [](txn_pc = "outside" => ~in_transaction /\ transaction_commands = <<>>)
    /\ [](txn_pc = "body" => in_transaction)
    /\ [][BodyRaised => executed' = executed]_vars
    /\ [](\A k \in 1..Len(executed) : \A j \in 1..Len(executed[k].cmds) :
            LET c == vsctl_calls[executed[k].cmds[j]]
            IN c.txn /= 0 /\ ~c.skip_transaction /\ outcome[c.txn] = "raised"
                 => executed[k].by = "commit")
    /\ [][ovs_errors' /= ovs_errors =>
            /\ in_transaction /\ in_transaction'
            /\ transaction_commands' = transaction_commands
            /\ executed' = executed]_vars
    /\ [][txn_pc = "body" /\ Len(outcome') /= Len(outcome) => FALSE]_vars

\* A context whose body raised with a command in the queue has exited, a
\* commit has failed in another, and a nested transaction() has raised.
C30_Witness ==
    /\ txn_pc = "outside"
    /\ ovs_errors > 0
    /\ \E cmd \in 1..Len(vsctl_calls) :
          /\ vsctl_calls[cmd].txn /= 0
          /\ ~vsctl_calls[cmd].skip_transaction
          /\ outcome[vsctl_calls[cmd].txn] = "raised"
          /\ Times(cmd) = 0
    /\ \E t \in 1..Len(outcome) : outcome[t] = "commit_failed"

----------------------------------------------------------------------------
\* The pass from the wait loop on, with the clock of _wait_for_interface.
\* It starts where a pass stands after the publish when the switch had no
\* physnet mapping yet: nothing was detected, every desired bridge was
\* created (add-br --may-exist) and the mapping was published.

ValidTokenLists ==
    {t \in SeqsUpTo(Tokens, MaxTokens) \ {<<>>} :
        resolve_bridge_mappings(None, None, None, t).err = ""}

InitWait ==
    /\ bridge_mapping \in ValidTokenLists
    /\ legacy = <<None, None, None>>
    /\ mappings = resolve_bridge_mappings(None, None, None, bridge_mapping).mappings
    /\ desired0 = mappings
    /\ current_mappings = <<>>
    /\ \E order \in Perms(AllPhysnets(<<>>, mappings)) :
          changes = resolve_ovs_changes(<<>>, mappings, order)
    /\ ovsBridges = {INTEGRATION_BRIDGE} \cup {mappings[k].bridge : k \in 1..Len(mappings)}
    /\ ovsPorts \in {[i \in Ifaces |-> None], [i \in Ifaces |-> mappings[1].bridge]}
    /\ ovsTagged = {i \in Ifaces : ovsPorts[i] /= None}
    /\ ovsMappings = BridgeMappingsValue(mappings)
    /\ ovsMacMappings = <<>>
    /\ ovsGateway = FALSE
    /\ enable_chassis_as_gw \in BOOLEAN
    /\ calls = [k \in 1..Len(changes.added_bridges) |->
                    Call("add-br", changes.added_bridges[k], None, None, "")]
                \o <<Call("set-bridge-mappings", None, None, None, "")>>
    /\ pc = "wait"
    /\ work = Indices(mappings)
    /\ extTodo = <<>>
    /\ pass = 1
    /\ lastPublished = <<>>
    /\ elapsed = 0
    /\ links \in SUBSET {mappings[k].bridge : k \in 1..Len(mappings)}
    /\ failing = NoFailures
    /\ error = NoError
    /\ mac_args = <<DEFAULT_LAA_MAC_PREFIX, 1, 1>>
    /\ mac_result = NotCalled
    /\ NewOVSCli

NextWait ==
    \/ WaitFound
    \/ WaitSleep
    \/ WaitRaise
    \/ LinkAppears
    \/ EnforceBegin
    \/ EnforceDetach
    \/ EnforceEnd
    \/ PublishMac
    \/ Gateway
    \/ CommandFails

\* The pass is a running program: its poll loop keeps taking steps.
SpecWait == InitWait /\ [][NextWait]_vars /\ WF_vars(WaitFound \/ WaitSleep \/ WaitRaise)

----------------------------------------------------------------------------
\* Vocabulary of the properties.

\* The change-set of this pass has been computed (line 206 is behind).
Diffed == pc \notin {"resolve", "detect", "diff", "raised"}

Issued(op) == \E k \in 1..Len(calls) : calls[k].op = op

IssuedOn(op, bridge) == \E k \in 1..Len(calls) : calls[k].op = op /\ calls[k].br = bridge

\* The physnet -> bridge maps of the detected and of the declared list.
PrevMap == PhysnetMap(current_mappings)
NewMap == PhysnetMap(desired0)

DetectedInterfaces(bridge) ==
    {current_mappings[k].interface :
        k \in {j \in 1..Len(current_mappings) :
                 current_mappings[j].bridge = bridge
                 /\ current_mappings[j].interface /= None}}

DesiredInterfaces(bridge) ==
    {desired0[k].interface :
        k \in {j \in 1..Len(desired0) :
                 desired0[j].bridge = bridge /\ desired0[j].interface /= None}}

\* The physnets whose bridge name differs between the detected and the declared list.
Renamed == {p \in DOMAIN PrevMap \cap DOMAIN NewMap : PrevMap[p] /= NewMap[p]}

----------------------------------------------------------------------------
\* C1: in every pass each detach call that comes from the interface removals
\* of the change-set is issued before the first del-br, and every interface
\* detected on a bridge that the pass deletes has been detached from it
\* (a detach call and its del-port) before the del-br of that bridge.
C1_DetachBeforeDelete ==
    \A k \in 1..Len(calls) :
        calls[k].op = "del-br" =>
            /\ \A j \in 1..Len(calls) :
                  (calls[j].op \in {"detach", "del-port"} /\ calls[j].src = "changeset")
                      => j < k
            /\ \A i \in DetectedInterfaces(calls[k].br) :
                  /\ \E j \in 1..(k - 1) :
                        calls[j] = Call("detach", calls[k].br, i, None, "changeset")
                  /\ \E j \in 1..(k - 1) :
                        calls[j] = Call("del-port", calls[k].br, i, None, "changeset")

\* A bridge with a detected interface has been deleted after the detach.
C1_Witness ==
    \E k \in 1..Len(calls) :
        /\ calls[k].op = "del-br"
        /\ DetectedInterfaces(calls[k].br) /= {}
        /\ \E j \in 1..(k - 1) : calls[j].op = "del-port" /\ calls[j].br = calls[k].br

----------------------------------------------------------------------------
\* A bridge survives the pass when the change-set does not delete it.
Survives(bridge) == bridge \notin Range(changes.removed_bridges)

\* C2 as stated: every detach call for a surviving bridge, from the change-set
\* removals or from the uplink enforcement, and every del-br precede the
\* publish of the physnet mapping.
C2_AllDetachBeforePublish ==
    \A j, k \in 1..Len(calls) :
        (/\ calls[k].op = "set-bridge-mappings"
         /\ \/ calls[j].op = "del-br"
            \/ calls[j].op \in {"detach", "del-port"} /\ Survives(calls[j].br))
        => j < k

\* C2, amended: the detach calls of the change-set removals and every del-br
\* precede the publish of the physnet mapping, and once the mapping is
\* published no further del-br or change-set detach is issued; the detach
\* calls of the uplink enforcement all follow the publish.
C2_ChangeSetDetachBeforePublish ==
    \A j, k \in 1..Len(calls) :
        calls[k].op = "set-bridge-mappings" =>
            /\ calls[j].op = "del-br" => j < k
            /\ (calls[j].op \in {"detach", "del-port"} /\ calls[j].src = "changeset") => j < k
            /\ (calls[j].op \in {"detach", "del-port"} /\ calls[j].src = "enforce") => k < j

\* One pass detaches from a surviving bridge before the publish (change-set)
\* and detaches from a surviving bridge by enforcement after it.
C2_Witness ==
    \E j, k, l \in 1..Len(calls) :
        /\ calls[j].op = "del-port" /\ calls[j].src = "changeset" /\ Survives(calls[j].br)
        /\ calls[k].op = "set-bridge-mappings"
        /\ calls[l].op = "del-port" /\ calls[l].src = "enforce" /\ Survives(calls[l].br)
        /\ j < k /\ k < l

----------------------------------------------------------------------------
\* C3: reconcile is idempotent.  A pass that immediately follows a successful
\* pass with the same desired specification issues no bridge creation, no
\* bridge deletion and no interface detachment, and publishes the same
\* physnet-to-bridge record as the first pass.
C3_Idempotent ==
    pass >= 2 =>
        /\ \A k \in 1..Len(calls) : calls[k].op \notin {"add-br", "del-br", "detach", "del-port"}
        /\ Issued("set-bridge-mappings") => ovsMappings = lastPublished

----------------------------------------------------------------------------
\* C4: no destructive churn.  A detected bridge whose physnet is still in the
\* desired configuration is neither listed in removed_bridges nor deleted; and
\* for a physnet whose bridge name changed, the old name is not in
\* removed_bridges, the new name is not in added_bridges, and the pass issues
\* neither del-br of the old name nor add-br of the new name.
C4_NoDestructiveChurn ==
    /\ \A k \in 1..Len(current_mappings) :
          current_mappings[k].physnet \in DOMAIN NewMap =>
              /\ current_mappings[k].bridge \notin Range(changes.removed_bridges)
              /\ ~IssuedOn("del-br", current_mappings[k].bridge)
    /\ \A p \in Renamed :
          /\ PrevMap[p] \notin Range(changes.removed_bridges)
          /\ NewMap[p] \notin Range(changes.added_bridges)
          /\ ~IssuedOn("del-br", PrevMap[p])
          /\ ~IssuedOn("add-br", NewMap[p])

\* A pass that found a physnet under another bridge name ran to its end.
C4_Witness ==
    /\ pc = "done"
    /\ Renamed /= {}
    /\ Issued("set-bridge-mappings")

----------------------------------------------------------------------------
\* The calls made for the mapping of one physnet: its wait and its uplink
\* enforcement (attach, detach, link-up).
CallsFor(physnet) == {k \in 1..Len(calls) : calls[k].phy = physnet}

\* The bridge the published record gives a physnet (None when it has no pair).
PublishedBridge(physnet) ==
    IF \E k \in 1..Len(ovsMappings) : ovsMappings[k][1] = physnet
    THEN ovsMappings[CHOOSE k \in 1..Len(ovsMappings) : ovsMappings[k][1] = physnet][2]
    ELSE None

\* The names of the detected bridges.
DetectedBridges == {current_mappings[k].bridge : k \in 1..Len(current_mappings)}

\* C5 as stated: when the desired configuration gives a served physnet another
\* bridge name, every later step of the pass refers to the old name and none
\* refers to the new name: no call names the new bridge and the published
\* record holds no pair with it.
C5_NeverTheNewName ==
    \A p \in Renamed :
        /\ \A k \in 1..Len(calls) : calls[k].br /= NewMap[p]
        /\ Issued("set-bridge-mappings") =>
              /\ PublishedBridge(p) = PrevMap[p]
              /\ \A k \in 1..Len(ovsMappings) : ovsMappings[k][2] /= NewMap[p]

\* C5, amended: the steps made for the renamed physnet itself (its pair in the
\* published record, its wait, its uplink attach and enforcement detach) use
\* the old bridge name; the new name is referred to by no step at all unless
\* it is also the name of a detected bridge.
C5_RenamedPhysnetKeepsOldName ==
    \A p \in Renamed :
        /\ \A k \in CallsFor(p) : calls[k].br = PrevMap[p]
        /\ Issued("set-bridge-mappings") => PublishedBridge(p) = PrevMap[p]
        /\ NewMap[p] \notin DetectedBridges =>
              /\ \A k \in 1..Len(calls) : calls[k].br /= NewMap[p]
              /\ Issued("set-bridge-mappings") =>
                    \A k \in 1..Len(ovsMappings) : ovsMappings[k][2] /= NewMap[p]

\* A pass with a renamed physnet that declares an interface published, waited
\* and attached the interface, all on the old name.
C5_Witness ==
    \E p \in Renamed :
        /\ Issued("set-bridge-mappings")
        /\ \E k \in CallsFor(p) : calls[k].op = "wait"
        /\ \E k \in CallsFor(p) : calls[k].op = "add-port" /\ calls[k].br = PrevMap[p]
        /\ NewMap[p] \notin DetectedBridges

----------------------------------------------------------------------------
\* The interface_changes entries recorded under a bridge.
EntriesUnder(bridge) ==
    {k \in 1..Len(changes.interface_changes) : changes.interface_changes[k].bridge = bridge}

\* The detach calls (_del_interface_from_bridge) of the pass for one interface of a bridge.
DetachCalls(bridge, iface) ==
    {k \in 1..Len(calls) :
        calls[k].op = "detach" /\ calls[k].br = bridge /\ calls[k].ifc = iface}

\* C6: for every physnet with a bridge in both the detected and the desired
\* list, the interface_changes entry under the previous bridge name has
\* removed = previous minus desired interfaces and added = desired minus
\* previous (no entry when both are empty), and a pass that runs to its end
\* has issued exactly one detach call on that bridge per removed interface and
\* none for any other interface.
C6_InterfaceChangeEntry ==
    Diffed =>
        \A p \in DOMAIN PrevMap \cap DOMAIN NewMap :
            LET removed == DetectedInterfaces(PrevMap[p]) \ DesiredInterfaces(NewMap[p])
                added == DesiredInterfaces(NewMap[p]) \ DetectedInterfaces(PrevMap[p])
            IN /\ IF removed = {} /\ added = {}
                  THEN EntriesUnder(PrevMap[p]) = {}
                  ELSE /\ Cardinality(EntriesUnder(PrevMap[p])) = 1
                       /\ \A k \in EntriesUnder(PrevMap[p]) :
                             /\ changes.interface_changes[k].removed = sorted(removed)
                             /\ changes.interface_changes[k].added = sorted(added)
               /\ pc = "done" =>
                     \A i \in Ifaces :
                         Cardinality(DetachCalls(PrevMap[p], i)) = IF i \in removed THEN 1 ELSE 0

----------------------------------------------------------------------------
\* The physnets that were detected and are not in the desired list.
Disappeared == DOMAIN PrevMap \ DOMAIN NewMap

\* interface_changes has exactly one entry under the bridge, with these lists.
HasEntry(bridge, removed, added) ==
    /\ Cardinality(EntriesUnder(bridge)) = 1
    /\ \A k \in EntriesUnder(bridge) :
          /\ changes.interface_changes[k].removed = removed
          /\ changes.interface_changes[k].added = added

\* C7 as stated: the differ records no interface-change entry for a physnet on
\* only one side.  A physnet that disappears, its bridge being in
\* removed_bridges, has no entry under that bridge even if the bridge had
\* interfaces; and with an empty previous list there are no entries at all.
C7_NoEntryForOneSidedPhysnet ==
    Diffed =>
        /\ \A p \in Disappeared :
              PrevMap[p] \in Range(changes.removed_bridges) => EntriesUnder(PrevMap[p]) = {}
        /\ current_mappings = <<>> => changes.interface_changes = <<>>

\* C7, amended: a physnet on only one side gets an entry whenever it has
\* interfaces.  A physnet that disappears, its bridge being in removed_bridges,
\* has one entry under that bridge with removed = all its detected interfaces
\* and added = [] (no entry only when the bridge had no interface); with an
\* empty previous list every desired mapping that declares an interface has
\* one entry under its bridge with removed = [] and added = [the interface],
\* and a mapping without interface has none.
C7_OneSidedPhysnetEntry ==
    Diffed =>
        /\ \A p \in Disappeared :
              PrevMap[p] \in Range(changes.removed_bridges) =>
                  IF DetectedInterfaces(PrevMap[p]) = {}
                  THEN EntriesUnder(PrevMap[p]) = {}
                  ELSE HasEntry(PrevMap[p], sorted(DetectedInterfaces(PrevMap[p])), <<>>)
        /\ current_mappings = <<>> =>
              \A k \in 1..Len(desired0) :
                  IF desired0[k].interface = None
                  THEN EntriesUnder(desired0[k].bridge) = {}
                  ELSE HasEntry(desired0[k].bridge, <<>>, <<desired0[k].interface>>)

\* The differ ran on a list where a physnet with interfaces disappeared and
\* its bridge is to be removed.
C7_Witness ==
    /\ Diffed
    /\ \E p \in Disappeared :
          /\ PrevMap[p] \in Range(changes.removed_bridges)
          /\ DetectedInterfaces(PrevMap[p]) /= {}
          /\ EntriesUnder(PrevMap[p]) /= {}

----------------------------------------------------------------------------
\* The bridge names of the desired list.
DesiredBridges == {desired0[k].bridge : k \in 1..Len(desired0)}

----------------------------------------------------------------------------
\* How often a pair occurs in renamed_bridges.
RenameCount(old, new) ==
    Cardinality({k \in 1..Len(changes.renamed_bridges) :
                    changes.renamed_bridges[k] = <<old, new>>})

\* The bridge update_mappings_from_rename is to give a desired mapping: the old
\* name when the desired bridge is the new name of a renamed physnet.
OldNameOf(bridge) ==
    IF \E p \in Renamed : NewMap[p] = bridge
    THEN PrevMap[CHOOSE p \in Renamed : NewMap[p] = bridge]
    ELSE bridge

\* C9: rename round-trip.  For every physnet detected on bridge b1 and
\* declared on another bridge b2, renamed_bridges holds the pair (b1, b2)
\* exactly once and holds no other pair; and the list the renames are applied
\* to equals the declared list in length, order, physnets and interfaces, with
\* the bridge of every mapping on a new name b2 replaced by the old name b1 and
\* every other bridge unchanged.
C9_RenameRoundTrip ==
    Diffed =>
        /\ Len(changes.renamed_bridges) = Cardinality(Renamed)
        /\ \A p \in Renamed : RenameCount(PrevMap[p], NewMap[p]) = 1
        /\ Len(mappings) = Len(desired0)
        /\ \A k \in 1..Len(desired0) :
              /\ mappings[k].physnet = desired0[k].physnet
              /\ mappings[k].interface = desired0[k].interface
              /\ mappings[k].bridge = OldNameOf(desired0[k].bridge)

\* The renames were applied to a declared list that holds a renamed physnet
\* with an interface and another, not renamed, physnet.
C9_Witness ==
    /\ Diffed
    /\ \E k, j \in 1..Len(desired0) :
          /\ desired0[k].physnet \in Renamed
          /\ desired0[k].interface /= None
          /\ mappings[k].bridge /= desired0[k].bridge
          /\ desired0[j].physnet \notin Renamed

\* Two physnets swap their bridge names between the detected and the declared list.
Swap(p, q) ==
    /\ p \in Renamed /\ q \in Renamed /\ p /= q
    /\ PrevMap[p] = NewMap[q]
    /\ PrevMap[q] = NewMap[p]

\* C10: when two physnets swap bridge names, the change-set reports exactly two
\* renames for the two bridges, one per physnet, and neither bridge is in
\* added_bridges or removed_bridges.
C10_SwapIsTwoRenames ==
    Diffed =>
        \A p, q \in Physnets :
            Swap(p, q) =>
                /\ RenameCount(PrevMap[p], NewMap[p]) = 1
                /\ RenameCount(PrevMap[q], NewMap[q]) = 1
                /\ Cardinality({k \in 1..Len(changes.renamed_bridges) :
                                  \/ changes.renamed_bridges[k][1] \in {PrevMap[p], PrevMap[q]}
                                  \/ changes.renamed_bridges[k][2] \in {PrevMap[p], PrevMap[q]}}) = 2
                /\ {PrevMap[p], PrevMap[q]} \cap Range(changes.added_bridges) = {}
                /\ {PrevMap[p], PrevMap[q]} \cap Range(changes.removed_bridges) = {}

\* The differ ran on a swap.
C10_Witness ==
    /\ Diffed
    /\ \E p, q \in Physnets : Swap(p, q)
    /\ Len(changes.renamed_bridges) = 2

----------------------------------------------------------------------------
\* C11: diff(A, A) is the empty change-set (no renames, no added bridges, no
\* removed bridges, no interface-change entries) for every mapping list A.
C11_DiffOfEqualListsIsEmpty ==
    (Diffed /\ current_mappings = desired0) => changes = NoChanges

\* The differ ran on two equal lists of two mappings, one with an interface.
C11_Witness ==
    /\ Diffed
    /\ current_mappings = desired0
    /\ Len(desired0) = 2
    /\ \E k \in 1..Len(desired0) : desired0[k].interface /= None

----------------------------------------------------------------------------
\* sorted() order of (old, new) tuples.
PairLess(a, b) == a[1] < b[1] \/ (a[1] = b[1] /\ a[2] < b[2])

\* A change-set as a value: the three lists, and interface_changes as the
\* dict it is (its items, whatever their insertion order).
ChangeSetValue(ch) ==
    <<ch.renamed_bridges, ch.added_bridges, ch.removed_bridges, Range(ch.interface_changes)>>

\* C12: the differ is deterministic.  Whatever order the set of physnets is
\* iterated in, the change-set is the same, and renamed_bridges,
\* added_bridges, removed_bridges and the removed and added list of every
\* interface_changes entry are in sorted order.
C12_Deterministic ==
    Diffed =>
        /\ \A order \in Perms(AllPhysnets(current_mappings, desired0)) :
              ChangeSetValue(resolve_ovs_changes(current_mappings, desired0, order))
                  = ChangeSetValue(changes)
        /\ \A k \in 1..(Len(changes.renamed_bridges) - 1) :
              PairLess(changes.renamed_bridges[k], changes.renamed_bridges[k + 1])
        /\ IsSorted(changes.added_bridges)
        /\ IsSorted(changes.removed_bridges)
        /\ \A k \in 1..Len(changes.interface_changes) :
              /\ IsSorted(changes.interface_changes[k].removed)
              /\ IsSorted(changes.interface_changes[k].added)

----------------------------------------------------------------------------
\* C13: the desired list the pass acts on after the renames are applied (the
\* list of the publish, the waits, the NIC attachment and the MAC record) has
\* pairwise distinct physnets and pairwise distinct bridges.
C13_AdaptedListUnique ==
    Diffed =>
        \A j, k \in 1..Len(mappings) :
            j /= k =>
                /\ mappings[j].physnet /= mappings[k].physnet
                /\ mappings[j].bridge /= mappings[k].bridge

----------------------------------------------------------------------------
\* The externally-tagged uplinks of a bridge.
TaggedUplinks(bridge) == {i \in Ifaces : ovsPorts[i] = bridge /\ i \in ovsTagged}

\* C14: when the uplink enforcement of a desired mapping is over, the
\* externally-tagged uplinks of its bridge are exactly the declared interface
\* if the mapping declares one, whatever was attached or tagged before, and
\* none if it declares none; in the latter case no attach and no link-up was
\* issued for the mapping.
C14_SoleTaggedUplink ==
    [][EnforceEnd =>
          LET m == mappings[Head(work)]
          IN IF m.interface /= None
             THEN TaggedUplinks(m.bridge) = {m.interface}
             ELSE /\ TaggedUplinks(m.bridge) = {}
                  /\ \A k \in CallsFor(m.physnet) : calls[k].op \notin {"add-port", "link-up"}]_vars

----------------------------------------------------------------------------
\* The positions in the call log of the calls of one kind.
CallsOf(op) == {k \in 1..Len(calls) : calls[k].op = op}

\* The positions of the calls the uplink enforcement made.
EnforceCalls == {k \in 1..Len(calls) : calls[k].src = "enforce"}

\* C15: the apply phases are a fixed pipeline.  Every bridge of added_bridges
\* is created before the physnet mapping is published, the publish precedes
\* every bridge-interface wait, and before any call of the uplink enforcement
\* (attach, detach) the wait has returned for every mapping of the list.
C15_Pipeline ==
    /\ \A k \in CallsOf("set-bridge-mappings") :
          /\ \A j \in CallsOf("add-br") : j < k
          /\ \A b \in Range(changes.added_bridges) : \E j \in 1..(k - 1) :
                calls[j] = Call("add-br", b, None, None, "")
    /\ \A w \in CallsOf("wait") : \E k \in CallsOf("set-bridge-mappings") : k < w
    /\ \A e \in EnforceCalls :
          /\ pc /= "timeout"
          /\ \A w \in CallsOf("wait") : w < e
          /\ \A i \in 1..Len(mappings) : \E w \in 1..(e - 1) :
                calls[w] = Call("wait", mappings[i].bridge, None, mappings[i].physnet, "")
          /\ Cardinality(CallsOf("wait")) = Len(mappings)

\* A pass created a bridge, published, waited for two mappings and then
\* attached an interface and detached another.
C15_Witness ==
    /\ pc = "done"
    /\ Issued("add-br")
    /\ Len(mappings) = 2
    /\ \E e \in EnforceCalls : calls[e].op = "add-port"
    /\ \E e \in EnforceCalls : calls[e].op = "del-port"

----------------------------------------------------------------------------
\* C16: when a switch command of the apply phases fails, the error leaves the
\* pass: the step that fails changes nothing in the switch (what earlier
\* commands did stays, nothing is rolled back), and after it no command is
\* issued and nothing changes any more.
C16_FailureAborts ==
    [][/\ (CommandFails \/ pc' = "failed") =>
             /\ pc' = "failed"
             /\ UNCHANGED switchVars
       /\ pc = "failed" => UNCHANGED vars]_vars

\* A pass failed after it had detached an interface and published the mapping,
\* and both are still in place.
C16_Witness ==
    /\ pc = "failed"
    /\ Issued("del-port")
    /\ Issued("set-bridge-mappings")
    /\ ovsMappings = BridgeMappingsValue(mappings)
    /\ ovsMappings /= <<>>
    /\ \E k \in CallsOf("del-port") : ovsPorts[calls[k].ifc] = None

----------------------------------------------------------------------------
\* The bridge the running wait polls for.
AwaitedBridge == mappings[Head(work)].bridge

\* C17: the bridge-interface wait always terminates.  It returns at the first
\* poll that finds the interface, and raises the timeout only when more than
\* WAIT_TIMEOUT has elapsed; every wait of the pass ends.  After the timeout
\* nothing more happens: no NIC attach or detach, no MAC-mapping publish and
\* no gateway call was issued, and the physnet mapping published before the
\* wait is still in place.
C17_WaitTerminates ==
    /\ [](pc = "timeout" =>
             /\ elapsed > WAIT_TIMEOUT
             /\ EnforceCalls = {}
             /\ ~Issued("set-mac-mappings")
             /\ ~Issued("enable-gw") /\ ~Issued("disable-gw")
             /\ Issued("set-bridge-mappings")
             /\ ovsMappings = BridgeMappingsValue(mappings))
    /\ [][/\ pc = "timeout" => UNCHANGED vars
          /\ (pc = "wait" /\ AwaitedBridge \in links) =>
                (pc' /= "timeout" /\ elapsed' \in {0, elapsed})]_vars
    /\ \A n \in 1..MaxTokens :
          (pc = "wait" /\ Len(work) = n) ~> ~(pc = "wait" /\ Len(work) = n)

\* A wait timed out on the second mapping after the first one was found.
C17_Witness ==
    /\ pc = "timeout"
    /\ elapsed > WAIT_TIMEOUT
    /\ Len(work) = 1
    /\ Len(mappings) = 2
    /\ Cardinality(CallsOf("wait")) = 2

----------------------------------------------------------------------------
\* The physnet detection reads for a bridge: None when the record has no pair
\* for it, an empty physnet, or cannot be read.
PhysnetOf(b) ==
    IF failing.get_bridge_physnet_map THEN None
    ELSE Get(get_bridge_physnet_map(ovsMappings), b)

\* The detected mappings of a bridge.
DetectedOn(b) == {m \in Range(current_mappings) : m.bridge = b}

\* The bridges detection gets past the physnet lookup for.
MappedBridges == {b \in ovsBridges \ {INTEGRATION_BRIDGE} : PhysnetOf(b) /= None}

\* The listed interfaces of a bridge that are not named like it.
Qualifying(b) == {i \in DOMAIN ovsPorts : ovsPorts[i] = b /\ ~(i = NI + b)}

\* C18: detection never fails because a read command of the switch fails.
\* It always returns a list: the empty list when listing the bridges fails;
\* and when listing the interfaces of a bridge fails, that bridge contributes
\* exactly one mapping, without interface, and the other bridges are still
\* detected.
C18_DetectionSurvivesFailures ==
    [][pc = "detect" =>
          /\ pc' = "diff"
          /\ failing.list_bridges => current_mappings' = <<>>
          /\ ~failing.list_bridges =>
                \A b \in MappedBridges :
                    IF b \in failing.list_bridge_interfaces
                    THEN {m \in Range(current_mappings') : m.bridge = b}
                            = {BridgeMapping(b, PhysnetOf(b), None)}
                    ELSE \E m \in Range(current_mappings') : m.bridge = b]_vars

\* Listing the interfaces of the first mapped bridge failed and the second
\* bridge was detected with its interface.
C18_Witness ==
    /\ pc = "diff"
    /\ ~failing.list_bridges
    /\ failing.list_bridge_interfaces = {1}
    /\ Qualifying(1) /= {}
    /\ current_mappings = <<BridgeMapping(1, PhysnetOf(1), None), BridgeMapping(2, PhysnetOf(2), 1)>>

\* C19: the detected list has no mapping for br-int, none for a bridge without
\* a physnet in the published table, none whose interface is named like its
\* bridge, and no triple twice; a mapped bridge without qualifying interface
\* appears exactly once, with no interface.
C19_DetectedListShape ==
    pc = "diff" =>
        /\ \A k \in 1..Len(current_mappings) :
              LET m == current_mappings[k]
              IN /\ m.bridge /= INTEGRATION_BRIDGE
                 /\ m.bridge \in MappedBridges
                 /\ m.physnet = PhysnetOf(m.bridge)
                 /\ ~(m.interface /= None /\ m.interface = NI + m.bridge)
                 /\ \A j \in 1..Len(current_mappings) : j /= k => current_mappings[j] /= m
        /\ ~failing.list_bridges =>
              \A b \in MappedBridges :
                  Qualifying(b) = {} =>
                      /\ DetectedOn(b) = {BridgeMapping(b, PhysnetOf(b), None)}
                      /\ Cardinality({k \in 1..Len(current_mappings) : current_mappings[k].bridge = b}) = 1

\* A bridge whose only listed interface carries its own name is detected once
\* without interface, next to a bridge with two NICs; the record also names
\* br-int.
C19_Witness ==
    /\ pc = "diff"
    /\ failing = NoFailures
    /\ INTEGRATION_BRIDGE \in ovsBridges
    /\ ovsPorts[NI + 1] = 1
    /\ Qualifying(1) = {}
    /\ Cardinality(Qualifying(2)) = 2
    /\ Len(current_mappings) = 3
    /\ Cardinality(DetectedOn(1)) = 1

----------------------------------------------------------------------------
\* The mappings the non-empty tokens of the mapping string spell, in order.
FromTokens ==
    LET toks == SelectSeq(bridge_mapping, LAMBDA t : t /= <<>>)
    IN [k \in 1..Len(toks) |->
           BridgeMapping(toks[k][1], toks[k][2],
                         IF Len(toks[k]) = 3 THEN toks[k][3] ELSE None)]

\* C20: the resolver takes its mappings from one source.  With a non-empty
\* mapping string the result is the list its tokens spell, whatever the legacy
\* triple is; with an empty string and a legacy bridge and physnet the result
\* is the one legacy mapping; otherwise the result is the empty list, and no
\* error is raised.
C20_SourceSelection ==
    pc \in {"detect", "raised"} =>
        IF bridge_mapping /= <<>>
        THEN pc = "detect" => mappings = FromTokens
        ELSE /\ pc = "detect"
             /\ mappings = IF legacy[1] /= None /\ legacy[2] /= None
                           THEN <<BridgeMapping(legacy[1], legacy[2], legacy[3])>>
                           ELSE <<>>

\* A mapping string with one token was resolved next to a complete legacy
\* triple that names another bridge.
C20_Witness ==
    /\ pc = "detect"
    /\ Len(bridge_mapping) = 1
    /\ Len(mappings) = 1
    /\ legacy[1] /= None /\ legacy[2] /= None /\ legacy[3] /= None
    /\ legacy[1] /= mappings[1].bridge

----------------------------------------------------------------------------
\* The non-empty tokens of the mapping string, in order.
NonEmptyTokens == SelectSeq(bridge_mapping, LAMBDA t : t /= <<>>)

\* Token k has two or three fields.
WellFormed(k) == Len(NonEmptyTokens[k]) \in {2, 3}

\* The interface field of a well-formed token, None when missing or empty.
IfaceOf(k) == IF Len(NonEmptyTokens[k]) = 3 THEN NonEmptyTokens[k][3] ELSE None

\* The keys on which the well-formed token k collides with an earlier one.
Collisions(k) ==
    {key \in {"physnet", "bridge", "interface"} :
        \E j \in 1..(k - 1) :
            /\ WellFormed(j)
            /\ \/ key = "physnet" /\ NonEmptyTokens[j][2] = NonEmptyTokens[k][2]
               \/ key = "bridge" /\ NonEmptyTokens[j][1] = NonEmptyTokens[k][1]
               \/ key = "interface" /\ IfaceOf(k) /= None /\ IfaceOf(j) = IfaceOf(k)}

Repeats(k) == WellFormed(k) /\ Collisions(k) /= {}

\* The tokens resolution cannot accept.
BadTokens == {k \in 1..Len(NonEmptyTokens) : ~WellFormed(k) \/ Repeats(k)}

\* The first of them: the token resolution stops at.
FirstBad == CHOOSE k \in BadTokens : \A j \in BadTokens : k <= j

\* The value token k carries under a key.
KeyValue(k, key) ==
    IF key = "physnet" THEN NonEmptyTokens[k][2]
    ELSE IF key = "bridge" THEN NonEmptyTokens[k][1]
    ELSE IfaceOf(k)

\* C21: a list resolved from a mapping string has pairwise distinct physnets,
\* pairwise distinct bridges and pairwise distinct non-empty interfaces; a
\* token that repeats the physnet, the bridge or the present interface of an
\* earlier token makes resolution fail, and when resolution stops at such a
\* token the error is a duplicate-key error that names a key the token
\* collides on and the colliding value.
C21_ResolvedListUnique ==
    (pc \in {"detect", "raised"} /\ bridge_mapping /= <<>>) =>
        /\ pc = "detect" =>
              \A j, k \in 1..Len(mappings) :
                  j /= k =>
                      /\ mappings[j].physnet /= mappings[k].physnet
                      /\ mappings[j].bridge /= mappings[k].bridge
                      /\ mappings[j].interface /= None =>
                            mappings[j].interface /= mappings[k].interface
        /\ (\E k \in 1..Len(NonEmptyTokens) : Repeats(k)) => pc = "raised"
        /\ (BadTokens /= {} /\ Repeats(FirstBad)) =>
              \E key \in Collisions(FirstBad) :
                  /\ error.err = IF key = "physnet" THEN "Duplicate physnet"
                                 ELSE IF key = "bridge" THEN "Duplicate bridge"
                                 ELSE "Duplicate interface"
                  /\ error.value = KeyValue(FirstBad, key)

\* After a repeated space, the second token repeats only the bridge of the
\* first one.
C21_Witness ==
    /\ pc = "raised"
    /\ Len(bridge_mapping) = 3
    /\ Len(NonEmptyTokens) = 2
    /\ FirstBad = 2
    /\ WellFormed(2)
    /\ Collisions(2) = {"bridge"}
    /\ NonEmptyTokens[1][1] = NonEmptyTokens[2][1]
    /\ error = [err |-> "Duplicate bridge", value |-> NonEmptyTokens[2][1]]

\* C22: every non-empty token must split into two or three fields.  A token
\* with another field count makes resolution fail and no list is returned,
\* with the invalid-format error when resolution stops at that token; empty
\* tokens are skipped without error.
C22_FieldCount ==
    (pc \in {"detect", "raised"} /\ bridge_mapping /= <<>>) =>
        /\ (\E k \in 1..Len(NonEmptyTokens) : ~WellFormed(k)) =>
              pc = "raised" /\ mappings = <<>>
        /\ (BadTokens /= {} /\ ~WellFormed(FirstBad)) =>
              error = [err |-> "Invalid mapping format", value |-> None]
        /\ error.err = "Invalid mapping format" =>
              \E k \in 1..Len(NonEmptyTokens) : ~WellFormed(k)
        /\ BadTokens = {} => pc = "detect" /\ Len(mappings) = Len(NonEmptyTokens)

\* After a repeated space the string goes on with a token of four fields.
C22_Witness ==
    /\ pc = "raised"
    /\ Len(bridge_mapping) = 3
    /\ bridge_mapping[2] = <<>>
    /\ Len(bridge_mapping[1]) = 3
    /\ Len(bridge_mapping[3]) = 4
    /\ error.err = "Invalid mapping format"

----------------------------------------------------------------------------
\* The mapping string has a token with a bad field count or a token that
\* repeats a physnet, a bridge or an interface.
InvalidSpec == bridge_mapping /= <<>> /\ BadTokens /= {}

\* C28: with an invalid desired specification the pass raises in its first
\* step: it never reaches detection, issues no command, and the switch state
\* stays as it was.
C28_InvalidSpecTouchesNothing ==
    /\ [](InvalidSpec =>
             /\ pc \in {"resolve", "raised"}
             /\ calls = <<>>
             /\ current_mappings = <<>>
             /\ pc = "raised" => error.err /= "")
    /\ [][InvalidSpec =>
             /\ pc = "resolve" /\ pc' = "raised"
             /\ UNCHANGED switchVars]_vars

\* A mapping string with a repeated bridge was rejected on a switch that
\* holds bridges, ports and a physnet record.
C28_Witness ==
    /\ pc = "raised"
    /\ error.err = "Duplicate bridge"
    /\ Bridges \subseteq ovsBridges
    /\ ovsMappings /= <<>>
    /\ \E i \in Ifaces : ovsPorts[i] /= None
    /\ calls = <<>>

----------------------------------------------------------------------------
\* C23: a pass that returns has written the physnet:bridge record once and the
\* physnet:MAC record once, each as the whole value with one entry per mapping
\* of the adapted list, and has read the machine id once: every MAC of the
\* record is derived from that one value.
C23_SingleWholeWrites ==
    pc = "done" =>
        /\ Cardinality(CallsOf("set-bridge-mappings")) = 1
        /\ Cardinality(CallsOf("set-mac-mappings")) = 1
        /\ Cardinality(CallsOf("get-machine-id")) = 1
        /\ Len(ovsMappings) = Len(mappings)
        /\ \A k \in 1..Len(mappings) :
              ovsMappings[k] = <<mappings[k].physnet, mappings[k].bridge>>
        /\ Len(ovsMacMappings) = Len(mappings)
        /\ \E id \in MachineIds :
              \A k \in 1..Len(mappings) :
                  /\ ovsMacMappings[k][1] = mappings[k].physnet
                  /\ ovsMacMappings[k][2].prefix = DEFAULT_LAA_MAC_PREFIX
                  /\ ovsMacMappings[k][2].physnet_bytes.of = mappings[k].physnet
                  /\ ovsMacMappings[k][2].machine_bytes.of = id

\* A pass over two mappings returned after it created a bridge and detached
\* an interface.
C23_Witness ==
    /\ pc = "done"
    /\ pass = 1
    /\ Len(mappings) = 2
    /\ Len(ovsMacMappings) = 2
    /\ ovsMacMappings[1][2].machine_bytes.of = 2
    /\ Issued("add-br")
    /\ Issued("del-port")

\* The positions of the gateway calls.
GatewayCalls == CallsOf("enable-gw") \cup CallsOf("disable-gw")

\* C24: a pass that returns has made exactly one gateway call, the set call
\* when enable_chassis_as_gw is true and the clear call when it is false, and
\* made it after the MAC-mapping publish.
C24_OneGatewayCall ==
    pc = "done" =>
        /\ Cardinality(GatewayCalls) = 1
        /\ enable_chassis_as_gw => CallsOf("disable-gw") = {}
        /\ ~enable_chassis_as_gw => CallsOf("enable-gw") = {}
        /\ \A g \in GatewayCalls : \A k \in CallsOf("set-mac-mappings") : k < g
        /\ CallsOf("set-mac-mappings") /= {}

\* The second pass cleared the option again.
C24_Witness ==
    /\ pc = "done"
    /\ pass = 2
    /\ ~enable_chassis_as_gw
    /\ ~ovsGateway
    /\ calls[Len(calls)].op = "disable-gw"
    /\ Len(mappings) > 0

----------------------------------------------------------------------------
\* Prefixes as written: "0b:00", "01:00".
Prefix_0b_00 == << <<0, 11>>, <<0, 0>> >>
Prefix_01_00 == << <<0, 1>>, <<0, 0>> >>

LaaBitMissing == "Prefix first octet must have LAA bit set"

\* C25 as stated: the derivation fails with the missing-LAA-bit error for
\* "0b:00" and for "01:00" and succeeds for "0a:c5".
C25_LaaBitExamples ==
    pc = "derived" =>
        /\ mac_args[1] = Prefix_0b_00 => mac_result.err = LaaBitMissing
        /\ mac_args[1] = Prefix_01_00 => mac_result.err = LaaBitMissing
        /\ mac_args[1] = DEFAULT_LAA_MAC_PREFIX => mac_result.err = ""

\* C25: the derivation fails with the missing-LAA-bit error for "01:00" and
\* succeeds for "0a:c5" and for "0b:00", whose first octet 0x0b = 00001011
\* has bit 1 set; in general it fails with that error exactly when the prefix
\* has two fields, the first one reads as a hex number, and bit 1 of that
\* number is clear.
C25_LaaBitRule ==
    pc = "derived" =>
        /\ mac_args[1] = Prefix_0b_00 => mac_result.err = ""
        /\ mac_args[1] = Prefix_01_00 => mac_result.err = LaaBitMissing
        /\ mac_args[1] = DEFAULT_LAA_MAC_PREFIX => mac_result.err = ""
        /\ mac_result.err = LaaBitMissing <=>
              /\ Len(mac_args[1]) = 2
              /\ IsHex(mac_args[1][1])
              /\ HexValue(mac_args[1][1]) \in {n \in 0..255 : n % 4 \in {0, 1}}

\* The derivation returned an address for "0b:00".
C25_Witness ==
    /\ pc = "derived"
    /\ mac_args[1] = Prefix_0b_00
    /\ mac_result.err = ""
    /\ mac_result.mac.prefix = Prefix_0b_00

\* A field is a two-digit hexadecimal octet.
IsOctet(field) == Len(field) = 2 /\ \A k \in 1..2 : field[k] \in 0..15

\* C26: the derivation fails with a prefix-format error, and gives no address,
\* for every prefix that is not two fields of two hex digits each.
C26_PrefixFormat ==
    pc = "derived" =>
        (~(Len(mac_args[1]) = 2 /\ IsOctet(mac_args[1][1]) /\ IsOctet(mac_args[1][2])) =>
            /\ mac_result.err \in {"Prefix must be exactly 2 octets",
                                   "Invalid hex value in prefix"}
            /\ mac_result.mac = NoMac)

----------------------------------------------------------------------------
\* The bridges of the rename-adapted desired list.
AdaptedBridges == {mappings[k].bridge : k \in 1..Len(mappings)}

\* C27: no bridge of the rename-adapted desired list is in removed_bridges,
\* and each of them was detected or is in added_bridges.  So a pass never
\* deletes a bridge of the list it publishes, waits on and attaches to, and
\* every bridge it waits on was detected or was created earlier in the pass.
C27_UsedBridgesExist ==
    Diffed =>
        /\ \A b \in AdaptedBridges :
              /\ b \notin Range(changes.removed_bridges)
              /\ b \in DetectedBridges \/ b \in Range(changes.added_bridges)
        /\ \A d \in CallsOf("del-br") :
              /\ calls[d].br \notin AdaptedBridges
              /\ \A k \in (d + 1)..Len(calls) :
                    calls[k].op \in {"wait", "add-port", "link-up"} =>
                        calls[k].br /= calls[d].br
        /\ \A w \in CallsOf("wait") :
              \/ calls[w].br \in DetectedBridges
              \/ \E a \in CallsOf("add-br") : a < w /\ calls[a].br = calls[w].br

\* A pass deleted the bridge of a vanished physnet, created the bridge of a
\* new one, waited for it and returned.
C27_Witness ==
    /\ pc = "done"
    /\ Issued("del-br")
    /\ Issued("add-br")
    /\ \E w \in CallsOf("wait") : calls[w].br \notin DetectedBridges
    /\ Issued("add-port")

====
